---- MODULE Spec2Model ----
(***************************************************************************)
(* Session orchestration engine of the Creative Battles backend:           *)
(* the matchmaking queue (MatchmakingService), the lobby table             *)
(* (LobbyService) and the game table (GameService), driven by a pool of    *)
(* concurrent request handlers.  Each handler runs one service call at a   *)
(* time, step by step, taking the service's lock around its critical       *)
(* section.                                                                *)
(***************************************************************************)
EXTENDS Integers, Sequences, FiniteSets, TLC

\* ------------------------------------------------------------------ bounds
NThreads == 2        \* concurrent request handlers
MaxGames == 2        \* games created in one run
MaxCalls == 6        \* service calls issued in one run
MaxLobbies == 1      \* lobbies created in one run
MaxSessions == 1     \* games created through the game service's own calls
MaxTicks == 4         \* ticks of the waiting page's poll interval
MaxPrompts == 3      \* prompts recorded or awaiting their handler, per run

\* ------------------------------------------------------------------ inputs
Handles == {"Nova", "Echo", "Iris"}
Threads == 1..NThreads

LobbyIds == 1..MaxLobbies

NameMin == 2         \* shortest player name accepted
NameMax == 64        \* longest player name accepted
PromptMax == 1000    \* longest prompt accepted
TimerStart == 30     \* seconds on the prompt card's countdown

NoGame == 0          \* "no Game" in matchedPlayers and in results
NoLobby == 0         \* "no lobby id" in a request
NoThread == 0        \* lock owner when the lock is free

VARIABLES
    waiting,         \* MatchmakingService._queue: sequence of handles
    matchedPlayers,  \* MatchmakingService._matched_players: handle -> game id
    games,           \* GameService store: sequence of Game records, id = index
    queueLock,       \* MatchmakingService lock: owning thread or NoThread
    gameLock,        \* GameService lock: owning thread or NoThread
    lobbies,         \* LobbyService store: lobby id -> Lobby record
    lobbiesMade,     \* number of lobby ids generated so far
    lobbyLock,       \* LobbyService lock: owning thread or NoThread
    pc,              \* per handler: the step it is at
    req,             \* per handler: the call it runs, [op, h, id]
    res,             \* the last response sent: the call and its result
    pair,            \* per handler: the two handles popped for pairing
    tasks,           \* generation tasks handed to the executor, not yet finished (a set)
    firstPos,        \* history: the first queue position returned to a handle
    calls,           \* history: number of calls issued so far
    sink,            \* socket events emitted by the step just taken
    waitingPage,     \* WaitingPage: the state of one mounted /game/waiting page
    card,            \* AIAssistantCard: the state of the prompt card of one game page
    gamePage         \* GameplayPage: the state of one mounted /game/{id} page

vars == <<waiting, matchedPlayers, games, queueLock, gameLock,
          lobbies, lobbiesMade, lobbyLock,
          pc, req, res, pair, tasks, firstPos, calls, sink, waitingPage,
          card, gamePage>>

\* The state of the backend and the state of the pages of one browser.
serverVars == <<waiting, matchedPlayers, games, queueLock, gameLock,
                lobbies, lobbiesMade, lobbyLock,
                pc, req, res, pair, tasks, firstPos, calls, sink>>
clientVars == <<waitingPage, card, gamePage>>
gamePageVars == <<card, gamePage>>

queueVars == <<waiting, matchedPlayers, queueLock, pair, firstPos>>
lobbyVars == <<lobbies, lobbiesMade, lobbyLock>>

\* ------------------------------------------------------------------ helpers
NoReq == [op |-> "none", h |-> "none", id |-> NoLobby]
NoRes == [op |-> "none", h |-> "none", id |-> NoLobby, was |-> "none",
          status |-> "none", position |-> 0, game |-> NoGame]
NoPair == <<>>

InSeq(s, x) == \E i \in 1..Len(s) : s[i] = x

IndexOf(s, x) == CHOOSE i \in 1..Len(s) : s[i] = x /\ \A j \in 1..(i - 1) : s[j] # x

Remove(s, x) == LET i == IndexOf(s, x)
                IN  SubSeq(s, 1, i - 1) \o SubSeq(s, i + 1, Len(s))

Matched == {h \in Handles : matchedPlayers[h] # NoGame}

NoWinner == "none"

\* A mapping with no entry yet (prompts, outputs, scores of a new game).
EmptyMap == <<>>

MapPut(map, k, v) == [x \in DOMAIN map \cup {k} |-> IF x = k THEN v ELSE map[x]]

\* create_game: a new game is pending, with no prompts, outputs or scores
\* and no winner.
NewGame(players, source) ==
    [players |-> players, source |-> source, status |-> "pending",
     prompts |-> EmptyMap, artifacts |-> EmptyMap, scores |-> EmptyMap,
     winner |-> NoWinner, forced |-> FALSE]

Result(status, position, game) ==
    [status |-> status, position |-> position, game |-> game]

\* Calls still running that may create a Game.
Creators == {t \in Threads : req[t].op \in {"joinQueue", "startLobby"}}

Init ==
    /\ waiting = <<>>
    /\ matchedPlayers = [h \in Handles |-> NoGame]
    /\ games = <<>>
    /\ queueLock = NoThread
    /\ gameLock = NoThread
    /\ lobbies = <<>>
    /\ lobbiesMade = 0
    /\ lobbyLock = NoThread
    /\ pc = [t \in Threads |-> "idle"]
    /\ req = [t \in Threads |-> NoReq]
    /\ res = NoRes
    /\ pair = [t \in Threads |-> NoPair]
    /\ tasks = {}
    /\ firstPos = [h \in Handles |-> 0]
    /\ calls = 0
    /\ sink = <<>>
    /\ waitingPage = [isActive |-> TRUE, status |-> "connecting",
                      pollInterval |-> FALSE, joinPending |-> TRUE,
                      pollsPending |-> 0, ticks |-> 0, timers |-> 0,
                      pushes |-> 0, paired |-> FALSE]
    /\ card = [timeLeft |-> TimerStart, promptText |-> "", isSubmitted |-> FALSE,
               isSubmittedRef |-> FALSE, timerRef |-> FALSE, autoSubmits |-> 0]
    /\ gamePage = [loading |-> TRUE, error |-> FALSE, fetchDue |-> TRUE,
                   isSubmitted |-> FALSE, submittedPrompts |-> 0,
                   generatedHTML |-> FALSE, iframeLoaded |-> FALSE,
                   hasAutoSubmitted |-> FALSE, gameCompleted |-> FALSE,
                   outbox |-> <<>>, inbox |-> <<>>, replies |-> {},
                   sent |-> 0, pollsAfter |-> FALSE]

\* History only: where the call found its handle (queue calls) or its
\* lobby (lobby calls) when it was served.
Seen(r) ==
    IF r.op \in {"joinQueue", "cancel"}
    THEN IF matchedPlayers[r.h] # NoGame THEN "matched"
         ELSE IF InSeq(waiting, r.h) THEN "waiting" ELSE "new"
    ELSE IF r.op \in {"createGame", "recordPrompt", "completeManually"}
    THEN IF r.id \in 1..Len(games) THEN games[r.id].status ELSE "absent"
    ELSE IF r.id \in DOMAIN lobbies THEN lobbies[r.id].status ELSE "absent"

\* A handler returns: the response is recorded and the handler is free again.
Respond(t, r) ==
    /\ res' = [op |-> req[t].op, h |-> req[t].h, id |-> req[t].id,
               was |-> Seen(req[t]),
               status |-> r.status, position |-> r.position, game |-> r.game]
    /\ req' = [req EXCEPT ![t] = NoReq]
    /\ pc' = [pc EXCEPT ![t] = "idle"]
    /\ UNCHANGED calls

\* A handler returns from a call that hands nothing to the executor.
Return(t, r) ==
    /\ Respond(t, r)
    /\ UNCHANGED tasks

\* A handler moves on to its next step.
Goto(t, label) ==
    /\ pc' = [pc EXCEPT ![t] = label]
    /\ UNCHANGED <<req, res, calls, tasks>>

\* A handler takes up a request: the pool hands it to its first free
\* handler.
Call(t, r, label) ==
    /\ pc[t] = "idle"
    /\ \A u \in Threads : u < t => pc[u] # "idle"
    /\ calls < MaxCalls
    /\ calls' = calls + 1
    /\ req' = [req EXCEPT ![t] = r]
    /\ pc' = [pc EXCEPT ![t] = label]
    /\ UNCHANGED <<res, tasks>>

\* ------------------------------------------------------------------ joinQueue
\* A lock that does not exclude: the handler enters whoever holds it.
AcquireQueueLock_NoExclusion(t) == queueLock' = t

\* with self._lock: the queue's critical section is entered.
AcquireQueueLock(t) ==
    /\ queueLock = NoThread
    /\ queueLock' = t

\* POST /matchmaking/join: a handler starts join_queue(h) and enters the
\* queue's critical section.
CallJoinQueue(t, h) ==
    /\ Call(t, [op |-> "joinQueue", h |-> h, id |-> NoLobby], "jq_check")
    /\ Len(games) + Cardinality(Creators) < MaxGames
    /\ AcquireQueueLock(t)
    /\ UNCHANGED <<lobbyVars, waiting, matchedPlayers, games, gameLock, pair, firstPos>>

\* Before the fix a poll never looked at the matched players.
AlreadyMatched_NoCheck(h) == FALSE

\* Step 1: a matched handle gets its stored Game back and is not re-queued.
AlreadyMatched(h) == matchedPlayers[h] # NoGame

\* The membership test skipped: every call appends.
IsWaiting_Never(h) == FALSE

\* Step 2: the handle is already in the queue.
IsWaiting(h) == InSeq(waiting, h)

\* The list index returned as it is (0-based).
QueuedPosition_ZeroBased(s, h) == IndexOf(s, h) - 1

\* The position reported to a queued handle: its 1-based index.
QueuedPosition(s, h) == IndexOf(s, h)

\* History only: remember the first position a handle was told.
NotePos(h, p) ==
    firstPos' = IF firstPos[h] = 0 THEN [firstPos EXCEPT ![h] = p] ELSE firstPos

\* Pairing waits for a third handle in the queue.
JoinQueueCheck_PairsAtThree(t) ==
    /\ pc[t] = "jq_check"
    /\ LET h == req[t].h IN
       IF AlreadyMatched(h)
       THEN /\ Return(t, Result("matched", 0, matchedPlayers[h]))
            /\ queueLock' = NoThread
            /\ UNCHANGED <<waiting, firstPos>>
       ELSE IF IsWaiting(h)
       THEN /\ Return(t, Result("queued", QueuedPosition(waiting, h), NoGame))
            /\ NotePos(h, QueuedPosition(waiting, h))
            /\ queueLock' = NoThread
            /\ UNCHANGED waiting
       ELSE /\ waiting' = Append(waiting, h)
            /\ IF Len(waiting') >= 3
               THEN /\ Goto(t, "jq_pop")
                    /\ UNCHANGED <<queueLock, firstPos>>
               ELSE /\ Return(t, Result("queued", Len(waiting'), NoGame))
                    /\ NotePos(h, Len(waiting'))
                    /\ queueLock' = NoThread
    /\ UNCHANGED <<lobbyVars, matchedPlayers, games, gameLock, pair>>

\* Steps 1-3 of join_queue up to the append.
JoinQueueCheck(t) ==
    /\ pc[t] = "jq_check"
    /\ LET h == req[t].h IN
       IF AlreadyMatched(h)
       THEN /\ Return(t, Result("matched", 0, matchedPlayers[h]))
            /\ queueLock' = NoThread
            /\ UNCHANGED <<waiting, firstPos>>
       ELSE IF IsWaiting(h)
       THEN /\ Return(t, Result("queued", QueuedPosition(waiting, h), NoGame))
            /\ NotePos(h, QueuedPosition(waiting, h))
            /\ queueLock' = NoThread
            /\ UNCHANGED waiting
       ELSE /\ waiting' = Append(waiting, h)
            /\ IF Len(waiting') >= 2
               THEN /\ Goto(t, "jq_pop")
                    /\ UNCHANGED <<queueLock, firstPos>>
               ELSE /\ Return(t, Result("queued", Len(waiting'), NoGame))
                    /\ NotePos(h, Len(waiting'))
                    /\ queueLock' = NoThread
    /\ UNCHANGED <<lobbyVars, matchedPlayers, games, gameLock, pair>>

\* Pop the two oldest handles of the queue.
PopPair(s) == <<s[1], s[2]>>

\* Only the oldest handle leaves the queue.
DropPair_OnlyFirst(s) == Tail(s)

\* The queue once the two oldest handles have left it.
DropPair(s) == SubSeq(s, 3, Len(s))

JoinQueuePop(t) ==
    /\ pc[t] = "jq_pop"
    /\ pair' = [pair EXCEPT ![t] = PopPair(waiting)]
    /\ waiting' = DropPair(waiting)
    /\ Goto(t, "jq_glock")
    /\ UNCHANGED <<lobbyVars, matchedPlayers, games, queueLock, gameLock, firstPos>>

\* game_service.create_game(players, source="matchmaking"), called with the
\* queue lock still held: the game store's own lock is taken inside.
JoinQueueGameLock(t) ==
    /\ pc[t] = "jq_glock"
    /\ gameLock = NoThread
    /\ gameLock' = t
    /\ Goto(t, "jq_create")
    /\ UNCHANGED <<lobbyVars, waiting, matchedPlayers, games, queueLock, pair, firstPos>>

\* The game store's lock is not released after the Game is created.
JoinQueueCreate_KeepsGameLock(t) ==
    /\ pc[t] = "jq_create"
    /\ games' = Append(games, NewGame(pair[t], "matchmaking"))
    /\ Goto(t, "jq_store")
    /\ UNCHANGED <<lobbyVars, waiting, matchedPlayers, queueLock, gameLock, pair,
                   firstPos>>

JoinQueueCreate(t) ==
    /\ pc[t] = "jq_create"
    /\ games' = Append(games, NewGame(pair[t], "matchmaking"))
    /\ gameLock' = NoThread
    /\ Goto(t, "jq_store")
    /\ UNCHANGED <<lobbyVars, waiting, matchedPlayers, queueLock, pair, firstPos>>

\* Only the caller (the younger handle) is remembered.
StorePair_CallerOnly(p, g) == [matchedPlayers EXCEPT ![p[2]] = g]

\* Both handles are remembered with the Game just created (its id is the
\* last one of the store: the queue lock serialises matchmaking creations).
StorePair(p, g) ==
    [h \in Handles |-> IF h = p[1] \/ h = p[2] THEN g ELSE matchedPlayers[h]]

JoinQueueStore(t) ==
    /\ pc[t] = "jq_store"
    /\ matchedPlayers' = StorePair(pair[t], Len(games))
    /\ pair' = [pair EXCEPT ![t] = NoPair]
    /\ Return(t, Result("matched", 0, Len(games)))
    /\ queueLock' = NoThread
    /\ UNCHANGED <<lobbyVars, waiting, games, gameLock, firstPos>>

\* ------------------------------------------------------------------ cancel
\* POST /matchmaking/cancel: a handler starts cancel(h) and enters the
\* queue's critical section.
CallCancel(t, h) ==
    /\ Call(t, [op |-> "cancel", h |-> h, id |-> NoLobby], "ca_body")
    /\ AcquireQueueLock(t)
    /\ UNCHANGED <<lobbyVars, waiting, matchedPlayers, games, gameLock, pair, firstPos>>

\* Cancelling a matched handle forgets the pairing of both handles.
CancelEffect_ForgetsPair(h) ==
    IF InSeq(waiting, h)
    THEN [status |-> "removed", waiting |-> Remove(waiting, h),
          matched |-> matchedPlayers]
    ELSE IF matchedPlayers[h] # NoGame
    THEN [status |-> "removed", waiting |-> waiting,
          matched |-> [k \in Handles |->
                          IF matchedPlayers[k] = matchedPlayers[h]
                          THEN NoGame ELSE matchedPlayers[k]]]
    ELSE [status |-> "absent", waiting |-> waiting, matched |-> matchedPlayers]

\* cancel(player_name): "Remove from queue or matched players";
\* {"status": "removed"} or {"status": "absent"}.
CancelEffect(h) ==
    IF InSeq(waiting, h)
    THEN [status |-> "removed", waiting |-> Remove(waiting, h),
          matched |-> matchedPlayers]
    ELSE IF matchedPlayers[h] # NoGame
    THEN [status |-> "removed", waiting |-> waiting,
          matched |-> [matchedPlayers EXCEPT ![h] = NoGame]]
    ELSE [status |-> "absent", waiting |-> waiting, matched |-> matchedPlayers]

CancelBody(t) ==
    /\ pc[t] = "ca_body"
    /\ LET e == CancelEffect(req[t].h) IN
       /\ waiting' = e.waiting
       /\ matchedPlayers' = e.matched
       /\ Return(t, Result(e.status, 0, NoGame))
    /\ queueLock' = NoThread
    /\ UNCHANGED <<lobbyVars, games, gameLock, pair, firstPos>>

\* ------------------------------------------------------------------ lobbies
LobbyExists(id) == id \in DOMAIN lobbies

NewLobby(host) ==
    [host |-> host, players |-> <<host>>,
     readyState |-> [h \in {host} |-> FALSE], status |-> "waiting"]

PutLobby(id, lobby) ==
    [i \in DOMAIN lobbies \cup {id} |-> IF i = id THEN lobby ELSE lobbies[i]]

DropLobby(id) == [i \in DOMAIN lobbies \ {id} |-> lobbies[i]]

\* A lock that does not exclude: the handler enters whoever holds it.
AcquireLobbyLock_NoExclusion(t) == lobbyLock' = t

\* with self._lock: the lobby store's critical section is entered.
AcquireLobbyLock(t) ==
    /\ lobbyLock = NoThread
    /\ lobbyLock' = t

\* A handler starts a lobby call and enters the lobby store's critical
\* section.
LobbyEnter(t, r, label) ==
    /\ Call(t, r, label)
    /\ AcquireLobbyLock(t)
    /\ UNCHANGED <<queueVars, games, gameLock, lobbies, lobbiesMade>>

Blank == " "

RECURSIVE TrimLeft(_)
TrimLeft(s) ==
    IF Len(s) > 0 /\ SubSeq(s, 1, 1) = Blank
    THEN TrimLeft(SubSeq(s, 2, Len(s))) ELSE s

RECURSIVE TrimRight(_)
TrimRight(s) ==
    IF Len(s) > 0 /\ SubSeq(s, Len(s), Len(s)) = Blank
    THEN TrimRight(SubSeq(s, 1, Len(s) - 1)) ELSE s

\* value.strip()
Trim(s) == TrimRight(TrimLeft(s))

RECURSIVE Repeat(_, _)
Repeat(c, n) ==
    IF n = 0 THEN ""
    ELSE IF n % 2 = 1 THEN c \o Repeat(c, n - 1)
    ELSE LET half == Repeat(c, n \div 2) IN half \o half

\* Names as clients send them: a handle, a handle with blanks around it,
\* a name too short once trimmed and a name too long.
RawNames == {"Nova", " Echo ", " N ", Repeat("x", NameMax + 1)}

\* value.strip() of every name a call may carry, computed once.
Stripped == [raw \in Handles \cup RawNames |-> Trim(raw)]

\* The length is tested on the name as it was sent.
ValidName_Untrimmed(raw) == Len(raw) >= NameMin /\ Len(raw) <= NameMax

\* normalize_name(value, field): names of 2-64 characters are accepted.
ValidName(raw) == Len(Stripped[raw]) >= NameMin /\ Len(Stripped[raw]) <= NameMax

\* normalize_name(value, field): the name the services work with.
normalize_name(raw) == Stripped[raw]

\* ValidationError: the call is refused before it reaches the store.
Reject(t, r) ==
    /\ pc[t] = "idle"
    /\ \A u \in Threads : u < t => pc[u] # "idle"
    /\ calls < MaxCalls
    /\ calls' = calls + 1
    /\ res' = [op |-> r.op, h |-> r.h, id |-> r.id, was |-> "none",
               status |-> "ValidationError", position |-> 0, game |-> NoGame]
    /\ UNCHANGED <<queueVars, lobbyVars, games, gameLock, pc, req, tasks>>

\* A lobby call that names a player: the name is validated first.
LobbyCall(t, r, label) ==
    IF ValidName(r.h)
    THEN LobbyEnter(t, [r EXCEPT !.h = normalize_name(@)], label)
    ELSE Reject(t, r)

\* POST /lobby/create
CallCreateLobby(t, h) ==
    /\ LobbyCall(t, [op |-> "createLobby", h |-> h, id |-> NoLobby], "cl_body")
    /\ lobbiesMade + Cardinality({u \in Threads :
           req[u].op = "createLobby"}) < MaxLobbies

\* create_lobby(host_name): new lobby with the host as its only player.
CreateLobbyBody(t) ==
    /\ pc[t] = "cl_body"
    /\ lobbiesMade' = lobbiesMade + 1
    /\ lobbies' = PutLobby(lobbiesMade + 1, NewLobby(req[t].h))
    /\ Return(t, Result("ok", 0, NoGame))
    /\ lobbyLock' = NoThread
    /\ UNCHANGED <<queueVars, games, gameLock>>

\* POST /lobby/join
CallJoinLobby(t, id, h) ==
    /\ LobbyCall(t, [op |-> "joinLobby", h |-> h, id |-> id], "jl_check")

\* The capacity test skipped: only a started lobby refuses a player.
LobbyFull_StartedOnly(lobby) == lobby.status = "started"

\* The lobby takes no further player.
LobbyFull(lobby) == Len(lobby.players) >= 2 \/ lobby.status = "started"

\* join_lobby(lobby_id, player_name): validation.
JoinLobbyCheck(t) ==
    /\ pc[t] = "jl_check"
    /\ IF ~LobbyExists(req[t].id)
       THEN /\ Return(t, Result("NotFoundError", 0, NoGame))
            /\ lobbyLock' = NoThread
       ELSE IF LobbyFull(lobbies[req[t].id])
       THEN /\ Return(t, Result("ConflictError", 0, NoGame))
            /\ lobbyLock' = NoThread
       ELSE /\ Goto(t, "jl_commit")
            /\ UNCHANGED lobbyLock
    /\ UNCHANGED <<queueVars, games, gameLock, lobbies, lobbiesMade>>

\* The player who joins is entered as ready.
Joined_StartsReady(lobby, h) ==
    [lobby EXCEPT !.players = Append(@, h),
                  !.readyState = [k \in DOMAIN @ \cup {h} |->
                                     IF k = h THEN TRUE ELSE @[k]],
                  !.status = "full"]

Joined(lobby, h) ==
    [lobby EXCEPT !.players = Append(@, h),
                  !.readyState = [k \in DOMAIN @ \cup {h} |->
                                     IF k = h THEN FALSE ELSE @[k]],
                  !.status = "full"]

\* join_lobby: the player is appended, not ready, and the lobby is full.
JoinLobbyCommit(t) ==
    /\ pc[t] = "jl_commit"
    /\ lobbies' = PutLobby(req[t].id, Joined(lobbies[req[t].id], req[t].h))
    /\ Return(t, Result("ok", 0, NoGame))
    /\ lobbyLock' = NoThread
    /\ UNCHANGED <<queueVars, games, gameLock, lobbiesMade>>

\* POST /lobby/leave
CallLeaveLobby(t, id, h) ==
    /\ LobbyCall(t, [op |-> "leaveLobby", h |-> h, id |-> id], "ll_body")

\* The player is removed and the status is left as it was.
Left_KeepsStatus(lobby, h) ==
    [lobby EXCEPT !.players = SelectSeq(@, LAMBDA k : k # h),
                  !.readyState = [k \in DOMAIN @ \ {h} |-> @[k]]]

Left(lobby, h) ==
    [lobby EXCEPT !.players = SelectSeq(@, LAMBDA k : k # h),
                  !.readyState = [k \in DOMAIN @ \ {h} |-> @[k]],
                  !.status = "waiting"]

\* The host is treated like any other player.
HostLeaves_Never(lobby, h) == FALSE

\* The host leaving deletes the lobby.
HostLeaves(lobby, h) == h = lobby.host

\* leave_lobby(lobby_id, player_name)
LeaveLobbyBody(t) ==
    /\ pc[t] = "ll_body"
    /\ LET id == req[t].id
           h == req[t].h IN
       IF ~LobbyExists(id)
       THEN /\ Return(t, Result("NotFoundError", 0, NoGame))
            /\ UNCHANGED lobbies
       ELSE IF ~InSeq(lobbies[id].players, h)
       THEN /\ Return(t, Result("NotFoundError", 0, NoGame))
            /\ UNCHANGED lobbies
       ELSE IF HostLeaves(lobbies[id], h)
       THEN /\ lobbies' = DropLobby(id)
            /\ Return(t, Result("deleted", 0, NoGame))
       ELSE /\ lobbies' = PutLobby(id, Left(lobbies[id], h))
            /\ Return(t, Result("ok", 0, NoGame))
    /\ lobbyLock' = NoThread
    /\ UNCHANGED <<queueVars, games, gameLock, lobbiesMade>>

\* POST /lobby/ready
CallToggleReady(t, id, h) ==
    /\ LobbyCall(t, [op |-> "toggleReady", h |-> h, id |-> id], "tr_body")

\* The lobby becomes ready once every player is ready.
Toggled_BecomesReady(lobby, h) ==
    LET flipped == [lobby EXCEPT !.readyState[h] = ~@] IN
    IF \A k \in DOMAIN flipped.readyState : flipped.readyState[k]
    THEN [flipped EXCEPT !.status = "ready"] ELSE flipped

Toggled(lobby, h) == [lobby EXCEPT !.readyState[h] = ~@]

\* toggle_ready(lobby_id, player_name)
ToggleReadyBody(t) ==
    /\ pc[t] = "tr_body"
    /\ LET id == req[t].id
           h == req[t].h IN
       IF ~LobbyExists(id)
       THEN /\ Return(t, Result("NotFoundError", 0, NoGame))
            /\ UNCHANGED lobbies
       ELSE IF h \notin DOMAIN lobbies[id].readyState
       THEN /\ Return(t, Result("NotFoundError", 0, NoGame))
            /\ UNCHANGED lobbies
       ELSE /\ lobbies' = PutLobby(id, Toggled(lobbies[id], h))
            /\ Return(t, Result("ok", 0, NoGame))
    /\ lobbyLock' = NoThread
    /\ UNCHANGED <<queueVars, games, gameLock, lobbiesMade>>

\* GET /lobby/<lobby_id>
CallGetLobby(t, id) ==
    /\ LobbyEnter(t, [op |-> "getLobby", h |-> "none", id |-> id], "gl_body")

\* get_lobby(lobby_id)
GetLobbyBody(t) ==
    /\ pc[t] = "gl_body"
    /\ Return(t, Result(IF LobbyExists(req[t].id) THEN "ok" ELSE "NotFoundError",
                        0, NoGame))
    /\ lobbyLock' = NoThread
    /\ UNCHANGED <<queueVars, games, gameLock, lobbies, lobbiesMade>>

\* POST /lobby/<lobby_id>/start
CallStartLobby(t, id, h) ==
    /\ LobbyCall(t, [op |-> "startLobby", h |-> h, id |-> id], "sl_check")
    /\ Len(games) + Cardinality(Creators) < MaxGames

\* Readiness is not looked at.
AllReady_Ignored(lobby) == TRUE

AllReady(lobby) == \A k \in DOMAIN lobby.readyState : lobby.readyState[k]

\* Any caller may start the lobby.
CanStart_AnyCaller(lobby, h) ==
    /\ Len(lobby.players) = 2
    /\ AllReady(lobby)

\* start_lobby fails unless the caller is the host, the lobby has exactly
\* two players and every player is ready.
CanStart(lobby, h) ==
    /\ h = lobby.host
    /\ Len(lobby.players) = 2
    /\ AllReady(lobby)

\* start_lobby(lobby_id, host_name): validation.
StartLobbyCheck(t) ==
    /\ pc[t] = "sl_check"
    /\ IF ~LobbyExists(req[t].id)
       THEN /\ Return(t, Result("NotFoundError", 0, NoGame))
            /\ lobbyLock' = NoThread
       ELSE IF ~CanStart(lobbies[req[t].id], req[t].h)
       THEN /\ Return(t, Result("ConflictError", 0, NoGame))
            /\ lobbyLock' = NoThread
       ELSE /\ Goto(t, "sl_glock")
            /\ UNCHANGED lobbyLock
    /\ UNCHANGED <<queueVars, games, gameLock, lobbies, lobbiesMade>>

\* The game store's lock is taken once the start is validated.
StartLobbyGameLock(t) ==
    /\ pc[t] = "sl_glock"
    /\ gameLock = NoThread
    /\ gameLock' = t
    /\ Goto(t, "sl_create")
    /\ UNCHANGED <<queueVars, lobbyVars, games>>

\* create_game(players, source="lobby")
StartLobbyCreate(t) ==
    /\ pc[t] = "sl_create"
    /\ games' = Append(games, NewGame(lobbies[req[t].id].players, "lobby"))
    /\ gameLock' = NoThread
    /\ Goto(t, "sl_commit")
    /\ UNCHANGED <<queueVars, lobbyVars>>

Started(lobby) == [lobby EXCEPT !.status = "started"]

\* The lobby is marked started and the new Game is returned.
StartLobbyCommit(t) ==
    /\ pc[t] = "sl_commit"
    /\ lobbies' = PutLobby(req[t].id, Started(lobbies[req[t].id]))
    /\ Return(t, Result("ok", 0, Len(games)))
    /\ lobbyLock' = NoThread
    /\ UNCHANGED <<queueVars, games, gameLock, lobbiesMade>>

LobbyStep(t, names) ==
    \/ \E h \in names : CallCreateLobby(t, h)
    \/ CreateLobbyBody(t)
    \/ \E id \in LobbyIds, h \in names : CallJoinLobby(t, id, h)
    \/ JoinLobbyCheck(t)
    \/ JoinLobbyCommit(t)
    \/ \E id \in LobbyIds, h \in names : CallLeaveLobby(t, id, h)
    \/ LeaveLobbyBody(t)
    \/ \E id \in LobbyIds, h \in names : CallToggleReady(t, id, h)
    \/ ToggleReadyBody(t)
    \/ \E id \in LobbyIds : CallGetLobby(t, id)
    \/ GetLobbyBody(t)
    \/ \E id \in LobbyIds, h \in names : CallStartLobby(t, id, h)
    \/ StartLobbyCheck(t)
    \/ StartLobbyGameLock(t)
    \/ StartLobbyCreate(t)
    \/ StartLobbyCommit(t)

\* ------------------------------------------------------------------ games
\* What the game service's callers pass: the provenance tag, the two
\* players, prompt texts, scores and the status of a manual completion.
Sources == {"matchmaking", "lobby", "manual"}
GamePlayers == {<<"Nova", "Echo">>}
Prompts == {"Build a dashboard"}
Scores == {80, 92}
TerminalStatuses == {"completed", "abandoned"}

\* What an operator passes to the manual completion.
ManualOutcomes ==
    {[s1 |-> 92, s2 |-> 80, winner |-> "Nova", status |-> "completed"],
     [s1 |-> 80, s2 |-> 80, winner |-> "Echo", status |-> "abandoned"],
     [s1 |-> 80, s2 |-> 92, winner |-> NoWinner, status |-> "abandoned"]}

\* Prompts recorded so far.
Recorded ==
    LET RECURSIVE Sum(_, _)
        Sum(g, hs) == IF hs = {} THEN 0
                      ELSE LET h == CHOOSE x \in hs : TRUE
                           IN  Len(games[g].prompts[h]) + Sum(g, hs \ {h})
        RECURSIVE All(_)
        All(g) == IF g = 0 THEN 0
                  ELSE Sum(g, DOMAIN games[g].prompts) + All(g - 1)
    IN  All(Len(games))

GameExists(g) == g \in 1..Len(games)

PlayersIn(game) == {game.players[i] : i \in 1..Len(game.players)}

PromptsOf(game, h) == IF h \in DOMAIN game.prompts THEN game.prompts[h] ELSE <<>>

\* with self._lock: a game operation runs as one critical section, entered
\* when no other holder is inside and left before the next step.
InGameLock == gameLock = NoThread

\* A handler serves a game call in one critical section and responds.
GameServe(t, r, out) ==
    /\ pc[t] = "idle"
    /\ \A u \in Threads : u < t => pc[u] # "idle"
    /\ calls < MaxCalls
    /\ calls' = calls + 1
    /\ InGameLock
    /\ res' = [op |-> r.op, h |-> r.h, id |-> r.id, was |-> Seen(r),
               status |-> out.status, position |-> out.position,
               game |-> out.game]
    /\ UNCHANGED <<queueVars, lobbyVars, gameLock, pc, req>>

\* POST /game/create: create_game(players, assigned_image, source), with the
\* source its caller passes.
CreateGame(t, players, source) ==
    /\ Len(games) < MaxSessions
    /\ games' = Append(games, NewGame(players, source))
    /\ GameServe(t, [op |-> "createGame", h |-> "none", id |-> NoGame],
                 Result("ok", 0, Len(games) + 1))
    /\ UNCHANGED tasks

\* Prompts of any length are accepted, the empty one excepted.
ValidPrompt_NoUpperBound(text) == Len(text) >= 1

\* Prompts must be non-empty and at most 1000 characters.
ValidPrompt(text) == Len(text) >= 1 /\ Len(text) <= PromptMax

\* Generation is requested for the opponent of the recording player.
NewTask_ForOpponent(g, h, text, round) ==
    [g |-> g, h |-> CHOOSE p \in PlayersIn(games[g]) : p # h, prompt |-> text,
     round |-> round, pc |-> "generating", prior |-> "none"]

\* The generation task handed to the executor for the prompt just recorded.
NewTask(g, h, text, round) ==
    [g |-> g, h |-> h, prompt |-> text, round |-> round,
     pc |-> "generating", prior |-> "none"]

\* POST /game/<game_id>/prompt: record_prompt(game_id, player_name, prompt).
\* The prompt is appended and generation is requested for the recording
\* player before the call returns.
\* The new prompt takes the place of the player's earlier prompts.
RecordPrompt_Overwrites(t, g, h, text) ==
    LET r == [op |-> "recordPrompt", h |-> h, id |-> g] IN
    /\ ValidPrompt(text) /\ GameExists(g) /\ h \in PlayersIn(games[g])
    /\ Recorded < MaxPrompts
    /\ games' = [games EXCEPT ![g].prompts = MapPut(@, h, <<text>>)]
    /\ tasks' = tasks \cup {NewTask(g, h, text, Len(PromptsOf(games[g], h)) + 1)}
    /\ GameServe(t, r, Result("ok", 0, g))

\* The handler keeps the game store's lock while the generation it has
\* requested is running.
RecordPrompt_UnderLock(t, g, h, text) ==
    LET r == [op |-> "recordPrompt", h |-> h, id |-> g]
        said == Append(PromptsOf(games[g], h), text) IN
    /\ ValidPrompt(text) /\ GameExists(g) /\ h \in PlayersIn(games[g])
    /\ Recorded < MaxPrompts
    /\ pc[t] = "idle"
    /\ \A u \in Threads : u < t => pc[u] # "idle"
    /\ calls < MaxCalls
    /\ calls' = calls + 1
    /\ InGameLock
    /\ gameLock' = t
    /\ games' = [games EXCEPT ![g].prompts = MapPut(@, h, said)]
    /\ tasks' = tasks \cup {NewTask(g, h, text, Len(said))}
    /\ res' = [op |-> r.op, h |-> r.h, id |-> r.id, was |-> Seen(r),
               status |-> "ok", position |-> 0, game |-> g]
    /\ UNCHANGED <<queueVars, lobbyVars, pc, req>>

RecordPrompt(t, g, h, text) ==
    LET r == [op |-> "recordPrompt", h |-> h, id |-> g] IN
    IF ~ValidPrompt(text)
    THEN Reject(t, r)
    ELSE IF ~GameExists(g)
    THEN /\ GameServe(t, r, Result("NotFoundError", 0, NoGame))
         /\ UNCHANGED <<games, tasks>>
    ELSE IF h \notin PlayersIn(games[g])
    THEN /\ GameServe(t, r, Result("NotFoundError", 0, NoGame))
         /\ UNCHANGED <<games, tasks>>
    ELSE LET said == Append(PromptsOf(games[g], h), text) IN
         /\ Recorded < MaxPrompts
         /\ games' = [games EXCEPT ![g].prompts = MapPut(@, h, said)]
         /\ tasks' = tasks \cup {NewTask(g, h, text, Len(said))}
         /\ GameServe(t, r, Result("ok", 0, g))

\* What the executor reports to the caller when the external capability
\* fails.
Failure(op, task) ==
    [op |-> op, h |-> task.h, id |-> task.g, was |-> games[task.g].status,
     status |-> "GenerationFailure", position |-> 0, game |-> task.g]

\* requestArtifact times out or returns malformed output: nothing is stored.
GenerationFails(task) ==
    /\ task \in tasks
    /\ task.pc = "generating"
    /\ tasks' = tasks \ {task}
    /\ res' = Failure("requestArtifact", task)
    /\ UNCHANGED <<queueVars, lobbyVars, games, gameLock, pc, req, calls>>

\* The generated output of a prompt.
Artifact(task) == [prompt |-> task.prompt, round |-> task.round]

BothHaveArtifacts(game) == \A p \in PlayersIn(game) : p \in DOMAIN game.artifacts

\* Scoring never starts.
ShouldScore_Never(game) == FALSE

\* Scoring starts as soon as one output exists.
ShouldScore_AnyArtifact(game) ==
    DOMAIN game.artifacts # {} /\ game.status # "completed"

\* Scoring starts whenever both outputs exist, also for a completed game.
ShouldScore_AlsoCompleted(game) == BothHaveArtifacts(game)

\* Both players have an output and the game is not completed yet.
ShouldScore(game) == BothHaveArtifacts(game) /\ game.status # "completed"

\* onArtifactReady(gameId, handle, artifact), one short critical section:
\* the output is stored; when both outputs exist the game is marked
\* processing and scoring is invoked for both.
OnArtifactReady(task) ==
    /\ task \in tasks
    /\ task.pc = "generating"
    /\ InGameLock
    /\ LET g == task.g
           stored == [games[g] EXCEPT
                         !.artifacts = MapPut(@, task.h, Artifact(task))] IN
       IF ShouldScore(stored)
       THEN /\ games' = [games EXCEPT ![g] = [stored EXCEPT !.status = "processing"]]
            /\ tasks' = (tasks \ {task})
                         \cup {[task EXCEPT !.pc = "scoring",
                                            !.prior = games[g].status]}
       ELSE /\ games' = [games EXCEPT ![g] = stored]
            /\ tasks' = tasks \ {task}
    /\ UNCHANGED <<queueVars, lobbyVars, gameLock, pc, req, res, calls>>

\* scoreArtifact fails and the game is left as it is.
ScoringFails_LeavesProcessing(task) ==
    /\ task \in tasks
    /\ task.pc = "scoring"
    /\ InGameLock
    /\ tasks' = tasks \ {task}
    /\ res' = Failure("scoreArtifact", task)
    /\ UNCHANGED <<queueVars, lobbyVars, games, gameLock, pc, req, calls>>

\* scoreArtifact fails: the game goes back to the status it had before
\* scoring started, unless it has left processing in the meantime.
ScoringFails(task) ==
    /\ task \in tasks
    /\ task.pc = "scoring"
    /\ gameLock = NoThread
    /\ games' = [games EXCEPT ![task.g].status =
                    IF @ = "processing" THEN task.prior ELSE @]
    /\ tasks' = tasks \ {task}
    /\ res' = Failure("scoreArtifact", task)
    /\ UNCHANGED <<queueVars, lobbyVars, gameLock, pc, req, calls>>

\* The player with the lower score wins.
WinnerOf_LowerScore(players, sc) ==
    IF sc[players[1]] < sc[players[2]] THEN players[1]
    ELSE IF sc[players[2]] < sc[players[1]] THEN players[2]
    ELSE NoWinner

\* The first player wins a tie.
WinnerOf_TieToFirst(players, sc) ==
    IF sc[players[1]] >= sc[players[2]] THEN players[1] ELSE players[2]

\* The winner is the player with the strictly higher score; equal scores
\* leave the game without a winner.
WinnerOf(players, sc) ==
    IF sc[players[1]] > sc[players[2]] THEN players[1]
    ELSE IF sc[players[2]] > sc[players[1]] THEN players[2]
    ELSE NoWinner

ScoresOf(players, s1, s2) ==
    [p \in {players[1], players[2]} |-> IF p = players[1] THEN s1 ELSE s2]

\* Both outputs are scored; the scores and the winner are stored and the
\* game is completed, in one short critical section.
ScoringDone(task, s1, s2) ==
    /\ task \in tasks
    /\ task.pc = "scoring"
    /\ InGameLock
    /\ LET g == task.g
           sc == ScoresOf(games[g].players, s1, s2) IN
       games' = [games EXCEPT ![g].scores = sc,
                              ![g].winner = WinnerOf(games[g].players, sc),
                              ![g].status = "completed"]
    /\ tasks' = tasks \ {task}
    /\ UNCHANGED <<queueVars, lobbyVars, gameLock, pc, req, res, calls>>

\* The outputs a caller of the manual completion supplies.
ManualArtifacts(players) ==
    [p \in {players[1], players[2]} |-> [prompt |-> "manual", round |-> 0]]

\* The failsafe stores what it is given but always marks the game completed.
CompleteManually_AlwaysCompleted(t, g, out) ==
    LET r == [op |-> "completeManually", h |-> "none", id |-> g] IN
    IF ~GameExists(g)
    THEN /\ GameServe(t, r, Result("NotFoundError", 0, NoGame))
         /\ UNCHANGED <<games, tasks>>
    ELSE /\ games' = [games EXCEPT
              ![g].artifacts = ManualArtifacts(games[g].players),
              ![g].scores = ScoresOf(games[g].players, out.s1, out.s2),
              ![g].winner = out.winner,
              ![g].status = "completed",
              ![g].forced = TRUE]
         /\ GameServe(t, r, Result("ok", 0, g))
         /\ UNCHANGED tasks

\* POST /game/<game_id>/complete: complete_game(game_id, outputs, scores,
\* winner, status). The failsafe stores what it is given and sets the given
\* status; no generation or scoring call is made.
CompleteManually(t, g, out) ==
    LET r == [op |-> "completeManually", h |-> "none", id |-> g] IN
    IF ~GameExists(g)
    THEN /\ GameServe(t, r, Result("NotFoundError", 0, NoGame))
         /\ UNCHANGED <<games, tasks>>
    ELSE /\ games' = [games EXCEPT
              ![g].artifacts = ManualArtifacts(games[g].players),
              ![g].scores = ScoresOf(games[g].players, out.s1, out.s2),
              ![g].winner = out.winner,
              ![g].status = out.status,
              ![g].forced = TRUE]
         /\ GameServe(t, r, Result("ok", 0, g))
         /\ UNCHANGED tasks

\* Games are created and prompts recorded.
PipelineStep(t, texts) ==
    \/ \E players \in GamePlayers, source \in Sources :
          CreateGame(t, players, source)
    \/ \E g \in 1..MaxSessions, h \in Handles, text \in texts :
          RecordPrompt(t, g, h, text)

\* An operator overrides the pipeline.
FailsafeStep(t) ==
    \E g \in 1..MaxSessions, out \in ManualOutcomes : CompleteManually(t, g, out)

\* The executor: generation and scoring results that succeed.
WorkerStep ==
    \/ \E task \in tasks : OnArtifactReady(task)
    \/ \E task \in tasks, s1 \in Scores, s2 \in Scores : ScoringDone(task, s1, s2)

\* The executor: generation and scoring calls that fail.
WorkerFailure ==
    \/ \E task \in tasks : GenerationFails(task)
    \/ \E task \in tasks : ScoringFails(task)

\* ------------------------------------------------------------------ events
\* An event on a socket namespace: /ws/lobby/<lobby_id> or /ws/game/<game_id>.
Event(ns, id, name) == [ns |-> ns, id |-> id, name |-> name]

\* A call has returned in this step.
Returned ==
    \/ calls' # calls /\ pc' = pc
    \/ \E t \in Threads : pc[t] # "idle" /\ pc'[t] = "idle"

\* The join route announces the player and never the full lobby.
RouteEvents_NoLobbyFull(r) ==
    IF r.status \notin {"ok", "deleted"} THEN <<>>
    ELSE CASE r.op = "joinLobby" -> <<Event("lobby", r.id, "player_joined")>>
           [] r.op = "leaveLobby" -> <<Event("lobby", r.id, "player_left")>>
           [] r.op = "toggleReady" -> <<Event("lobby", r.id, "player_ready")>>
           [] r.op = "startLobby" ->
                 <<Event("lobby", r.id, "game_starting"),
                   Event("lobby", r.id, "game_started")>>
           [] r.op = "createGame" -> <<Event("game", r.game, "game_created")>>
           [] r.op = "recordPrompt" -> <<Event("game", r.id, "prompt_submitted")>>
           [] r.op = "completeManually" -> <<Event("game", r.id, "game_completed")>>
           [] OTHER -> <<>>

\* What a route emits once its service call has returned, r being the
\* response: the lobby routes emit player_joined and lobby_full, player_left,
\* player_ready, game_starting and game_started; the game routes emit
\* game_created, prompt_submitted and game_completed; the matchmaking routes
\* emit nothing, a match is found by polling.
RouteEvents(r) ==
    IF r.status \notin {"ok", "deleted"} THEN <<>>
    ELSE CASE r.op = "joinLobby" ->
                 <<Event("lobby", r.id, "player_joined")>>
                 \o (IF Len(lobbies'[r.id].players) = 2
                     THEN <<Event("lobby", r.id, "lobby_full")>> ELSE <<>>)
           [] r.op = "leaveLobby" -> <<Event("lobby", r.id, "player_left")>>
           [] r.op = "toggleReady" -> <<Event("lobby", r.id, "player_ready")>>
           [] r.op = "startLobby" ->
                 <<Event("lobby", r.id, "game_starting"),
                   Event("lobby", r.id, "game_started")>>
           [] r.op = "createGame" -> <<Event("game", r.game, "game_created")>>
           [] r.op = "recordPrompt" -> <<Event("game", r.id, "prompt_submitted")>>
           [] r.op = "completeManually" -> <<Event("game", r.id, "game_completed")>>
           [] OTHER -> <<>>

\* The route layer over a step of a request handler.
Emit == sink' = IF Returned THEN RouteEvents(res') ELSE <<>>

\* The callback of a generation: output_generated, and game_processing when
\* the scoring is started.
ArtifactEvents(task) ==
    <<Event("game", task.g, "output_generated")>>
    \o (IF \E scoring \in tasks' \ tasks : scoring.pc = "scoring"
        THEN <<Event("game", task.g, "game_processing")>> ELSE <<>>)

\* The callback of a scoring: game_completed.
ScoredEvents(task) == <<Event("game", task.g, "game_completed")>>

\* ------------------------------------------------------------------ waiting page
\* How POST /matchmaking/join ends for the page: with the status the queue
\* answers, or with a response that is not ok or a network error.
JoinReply == IF waitingPage.paired THEN "matched" ELSE "queued"
JoinOutcomes == {JoinReply, "failed"}

\* Another player joins the queue and the server pairs the two.
OpponentJoins ==
    /\ ~waitingPage.paired
    /\ waitingPage' = [waitingPage EXCEPT !.paired = TRUE]
    /\ UNCHANGED <<serverVars, gamePageVars>>

\* joinMatchmaking, from the response on: an error is shown while the effect
\* is active; a matched response sets the status and schedules the redirect;
\* a queued response sets the status and starts the polling.
JoinMatchmakingReturns(reply) ==
    /\ waitingPage.joinPending
    /\ waitingPage' =
          IF ~waitingPage.isActive
          THEN [waitingPage EXCEPT !.joinPending = FALSE]
          ELSE IF reply = "failed"
          THEN [waitingPage EXCEPT !.joinPending = FALSE, !.status = "error"]
          ELSE IF reply = "matched"
          THEN [waitingPage EXCEPT !.joinPending = FALSE, !.status = "matched",
                                   !.timers = @ + 1]
          ELSE [waitingPage EXCEPT !.joinPending = FALSE, !.status = "queued",
                                   !.pollInterval = TRUE]
    /\ UNCHANGED <<serverVars, gamePageVars>>

\* setInterval fires: the callback posts /matchmaking/join, whether or not
\* the request of an earlier tick has been answered.
PollTick ==
    /\ waitingPage.pollInterval
    /\ waitingPage.ticks < MaxTicks
    /\ waitingPage' = [waitingPage EXCEPT !.pollsPending = @ + 1, !.ticks = @ + 1]
    /\ UNCHANGED <<serverVars, gamePageVars>>

\* The callback of a tick, from the response on: a failed request and a
\* response after the cleanup are dropped; a matched response sets the
\* status, clears the interval and schedules the redirect.
PollReturns(reply) ==
    /\ waitingPage.pollsPending > 0
    /\ waitingPage' =
          IF reply = "failed" \/ ~waitingPage.isActive \/ reply = "queued"
          THEN [waitingPage EXCEPT !.pollsPending = @ - 1]
          ELSE [waitingPage EXCEPT !.pollsPending = @ - 1, !.status = "matched",
                                   !.pollInterval = FALSE, !.timers = @ + 1]
    /\ UNCHANGED <<serverVars, gamePageVars>>

\* A redirect timer runs out: router.push(/game/{id}).
RedirectFires ==
    /\ waitingPage.timers > 0
    /\ waitingPage' = [waitingPage EXCEPT !.timers = @ - 1, !.pushes = @ + 1]
    /\ UNCHANGED <<serverVars, gamePageVars>>

\* The effect's cleanup, when the page is left.
WaitingCleanup ==
    /\ waitingPage.isActive
    /\ waitingPage' = [waitingPage EXCEPT !.isActive = FALSE,
                                          !.pollInterval = FALSE]
    /\ UNCHANGED <<serverVars, gamePageVars>>

\* ------------------------------------------------------------------ game page
\* The page of one player in one game: /game/{PageGame}?player={PagePlayer}.
PageGame == 1
PagePlayer == "Nova"

\* What the player may have in the text box: nothing, blanks, a prompt.
Typed == {"", "  ", "Build a dashboard"}

\* promptText.trim() of every text, computed once.
Trimmed == [raw \in Typed |-> Trim(raw)]

\* The card is rendered once the game is loaded and no error is shown.
CardMounted == ~gamePage.loading /\ ~gamePage.error

\* The page's handleSubmit up to its fetch, as seen by a caller whose
\* closure holds `submittedPrompts` prompts: nothing is sent for a blank
\* text; the first submission goes to POST /game/{id}/prompt and marks the
\* page as submitted, a later one goes to POST /ai/modify.
PageHandleSubmit(submitted, promptText, submittedPrompts) ==
    IF ~submitted \/ Trimmed[promptText] = ""
    THEN gamePage
    ELSE LET isFirstSubmission == submittedPrompts = 0 IN
         [gamePage EXCEPT
             !.isSubmitted = IF isFirstSubmission THEN submitted ELSE @,
             !.outbox = Append(@, [route |-> IF isFirstSubmission
                                             THEN "prompt" ELSE "modify",
                                   text |-> promptText]),
             !.sent = @ + 1]

\* The player edits the text box, which is disabled once the time is up.
CardTypes(text) ==
    /\ CardMounted
    /\ card.timeLeft > 0
    /\ card.promptText # text
    /\ card' = [card EXCEPT !.promptText = text]
    /\ UNCHANGED <<serverVars, waitingPage, gamePage>>

\* The countdown auto-submits whatever the player did before.
Tick_IgnoresSubmitted ==
    /\ CardMounted
    /\ card.timerRef
    /\ LET newTime == IF card.timeLeft - 1 > 0 THEN card.timeLeft - 1 ELSE 0
           auto == newTime = 0
       IN  /\ card' = [card EXCEPT
                          !.timeLeft = newTime,
                          !.isSubmitted = IF auto THEN TRUE ELSE @,
                          !.isSubmittedRef = IF auto THEN TRUE ELSE @,
                          !.timerRef = IF newTime = 0 THEN FALSE ELSE @,
                          !.autoSubmits = IF auto THEN @ + 1 ELSE @]
           /\ gamePage' = IF auto
                          THEN PageHandleSubmit(TRUE, card.promptText, 0)
                          ELSE gamePage
    /\ UNCHANGED <<serverVars, waitingPage>>

\* The interval callback of the countdown: the time left goes down by one,
\* not below 0; on reaching 0 the card submits the text of the box if the
\* player has not submitted, and the interval is cleared.  The callback
\* holds onSubmit and submittedPrompts of the render that started the
\* timer, in which no prompt had been submitted.
Tick ==
    /\ CardMounted
    /\ card.timerRef
    /\ LET newTime == IF card.timeLeft - 1 > 0 THEN card.timeLeft - 1 ELSE 0
           auto == newTime = 0 /\ ~card.isSubmittedRef
       IN  /\ card' = [card EXCEPT
                          !.timeLeft = newTime,
                          !.isSubmitted = IF auto THEN TRUE ELSE @,
                          !.isSubmittedRef = IF auto THEN TRUE ELSE @,
                          !.timerRef = IF newTime = 0 THEN FALSE ELSE @,
                          !.autoSubmits = IF auto THEN @ + 1 ELSE @]
           /\ gamePage' = IF auto
                          THEN PageHandleSubmit(TRUE, card.promptText, 0)
                          ELSE gamePage
    /\ UNCHANGED <<serverVars, waitingPage>>

\* The card's handleSubmit, run by the submit button, which is enabled
\* while time is left and the text is not blank: the card is marked as
\* submitted, the text goes to the page and the box is emptied.
CardHandleSubmit ==
    /\ CardMounted
    /\ card.timeLeft > 0
    /\ Trimmed[card.promptText] # ""
    /\ gamePage.sent < MaxPrompts
    /\ card' = [card EXCEPT !.isSubmitted = TRUE, !.isSubmittedRef = TRUE,
                            !.promptText = ""]
    /\ gamePage' = PageHandleSubmit(TRUE, card.promptText,
                                    gamePage.submittedPrompts)
    /\ UNCHANGED <<serverVars, waitingPage>>

\* The server serves the oldest request of the page.  A prompt goes through
\* POST /game/{id}/prompt; a modification touches no Game and may fail.
ServeRequest ==
    /\ gamePage.outbox # <<>>
    /\ LET request == Head(gamePage.outbox) IN
       IF request.route = "prompt"
       THEN /\ \E t \in Threads :
                  RecordPrompt(t, PageGame, PagePlayer, request.text)
            /\ gamePage' = [gamePage EXCEPT
                   !.outbox = Tail(@),
                   !.inbox = Append(@, [route |-> "prompt",
                                        ok |-> res'.status = "ok"])]
            /\ UNCHANGED <<sink, waitingPage, card>>
       ELSE /\ \E ok \in BOOLEAN :
                  gamePage' = [gamePage EXCEPT
                      !.outbox = Tail(@),
                      !.inbox = Append(@, [route |-> "modify", ok |-> ok])]
            /\ UNCHANGED <<serverVars, waitingPage, card>>

\* The page's handleSubmit from the response on.  A response that is not ok
\* shows the error page, which unmounts the card and so clears its timer.
\* An answered prompt brings the player's output if there is one, the
\* completion if the Game is completed, and becomes the submitted prompt;
\* an answered modification is added to the submitted prompts and the
\* preview is loaded again.
RequestReturns ==
    /\ gamePage.inbox # <<>>
    /\ LET reply == Head(gamePage.inbox)
           game == games[PageGame]
       IN  IF ~reply.ok
           THEN /\ gamePage' = [gamePage EXCEPT !.inbox = Tail(@), !.error = TRUE]
                /\ card' = [card EXCEPT !.timerRef = FALSE]
           ELSE IF reply.route = "prompt"
           THEN /\ gamePage' = [gamePage EXCEPT
                       !.inbox = Tail(@),
                       !.generatedHTML = @ \/ PagePlayer \in DOMAIN game.artifacts,
                       !.gameCompleted = @ \/ game.status = "completed",
                       !.fetchDue = @ \/ (~gamePage.gameCompleted
                                           /\ game.status = "completed"),
                       !.submittedPrompts = 1]
                /\ UNCHANGED card
           ELSE /\ gamePage' = [gamePage EXCEPT
                       !.inbox = Tail(@),
                       !.iframeLoaded = FALSE,
                       !.submittedPrompts = @ + 1]
                /\ UNCHANGED card
    /\ UNCHANGED <<serverVars, waitingPage>>

\* What GET /game/{id} answers: the Game's status and winner, or not found.
GameReply(from) ==
    IF GameExists(PageGame)
    THEN [from |-> from, ok |-> TRUE, status |-> games[PageGame].status,
          winner |-> games[PageGame].winner]
    ELSE [from |-> from, ok |-> FALSE, status |-> "none", winner |-> NoWinner]

\* Responses that no handler acts on, but to refresh the game shown: those
\* of pollGameStatus, those that are not ok, those of a poll for completion
\* that does not find it.
Inert(reply) ==
    \/ reply.from = "pollGameStatus"
    \/ reply.from # "fetchGameData" /\ ~reply.ok
    \/ reply.from = "pollInterval" /\ reply.status # "completed"
    \/ /\ reply.from = "pollForCompletion"
       /\ ~(reply.status = "completed" /\ reply.winner # NoWinner)

\* A request of GET /game/{id} by one of the page's effects; its response
\* is handled later.
Get(from) ==
    [gamePage EXCEPT !.replies = IF Inert(GameReply(from)) THEN @
                                 ELSE @ \cup {GameReply(from)},
                     !.fetchDue = IF from = "fetchGameData" THEN FALSE ELSE @,
                     !.pollsAfter = @ \/ (from # "fetchGameData"
                                          /\ gamePage.gameCompleted)]

\* The effect that fetches the game: on mount and when gameCompleted changes.
FetchGameData ==
    /\ gamePage.fetchDue
    /\ gamePage' = Get("fetchGameData")
    /\ UNCHANGED <<serverVars, waitingPage, card>>

\* The interval that polls for completion after the player submitted: it
\* exists while the page is submitted and not completed.
PollInterval ==
    /\ gamePage.isSubmitted
    /\ ~gamePage.gameCompleted
    /\ gamePage' = Get("pollInterval")
    /\ UNCHANGED <<serverVars, waitingPage, card>>

\* The interval that polls the status once an output was generated, until
\* the preview has been submitted.
PollGameStatus ==
    /\ gamePage.generatedHTML
    /\ ~gamePage.hasAutoSubmitted
    /\ gamePage' = Get("pollGameStatus")
    /\ UNCHANGED <<serverVars, waitingPage, card>>

\* The interval that polls for completion and winner once the preview has
\* been submitted.
PollForCompletion ==
    /\ gamePage.hasAutoSubmitted
    /\ gamePage' = Get("pollForCompletion")
    /\ UNCHANGED <<serverVars, waitingPage, card>>

\* setGameCompleted(true); the effect that fetches the game runs again when
\* gameCompleted changes.
Completed(page) ==
    [page EXCEPT !.gameCompleted = TRUE,
                 !.fetchDue = @ \/ ~page.gameCompleted]

\* What the response of a GET does to the page, by the effect that sent it.
Observed(page, reply) ==
    IF reply.from = "fetchGameData"
    THEN IF ~reply.ok
         THEN [page EXCEPT !.error = TRUE, !.loading = FALSE]
         ELSE LET shown == [page EXCEPT !.loading = FALSE]
              IN  IF reply.status = "completed" THEN Completed(shown) ELSE shown
    ELSE IF ~reply.ok THEN page
    ELSE IF reply.from = "pollInterval"
    THEN IF reply.status = "completed" THEN Completed(page) ELSE page
    ELSE IF reply.from = "pollForCompletion"
    THEN IF reply.status = "completed" /\ reply.winner # NoWinner
         THEN Completed(page) ELSE page
    ELSE page

\* A response of GET /game/{id} arrives.  The card is mounted, and its
\* countdown started, when the page stops loading without an error; the
\* error page unmounts it.
GetReturns(reply) ==
    /\ reply \in gamePage.replies
    /\ gamePage' = Observed([gamePage EXCEPT !.replies = @ \ {reply}], reply)
    /\ card' = [card EXCEPT !.timerRef =
                   IF gamePage'.error THEN FALSE
                   ELSE IF gamePage.loading /\ ~gamePage'.loading
                   THEN card.timeLeft > 0
                   ELSE @]
    /\ UNCHANGED <<serverVars, waitingPage>>

\* The preview's iframe loads the generated output; the effect that follows
\* marks the preview as submitted, once.
IframeLoads ==
    /\ CardMounted
    /\ gamePage.generatedHTML
    /\ ~gamePage.iframeLoaded
    /\ gamePage' = [gamePage EXCEPT !.iframeLoaded = TRUE,
                                    !.hasAutoSubmitted = TRUE]
    /\ UNCHANGED <<serverVars, waitingPage, card>>

\* The opponent's page sends its first submission to the prompt route.
OpponentSubmits ==
    /\ GameExists(PageGame)
    /\ \E opponent \in PlayersIn(games[PageGame]) \ {PagePlayer} :
          /\ opponent \notin DOMAIN games[PageGame].prompts
          /\ \E t \in Threads, text \in Prompts :
                RecordPrompt(t, PageGame, opponent, text)
    /\ UNCHANGED <<sink, clientVars>>

\* ------------------------------------------------------------------ specification
QueueStep(t) ==
    \/ \E h \in Handles : CallJoinQueue(t, h)
    \/ JoinQueueCheck(t)
    \/ JoinQueuePop(t)
    \/ JoinQueueGameLock(t)
    \/ JoinQueueCreate(t)
    \/ JoinQueueStore(t)
    \/ \E h \in Handles : CallCancel(t, h)
    \/ CancelBody(t)

\* The services on their own, with no subscriber on the socket namespaces
\* and no page acting.
Silent == UNCHANGED <<sink, clientVars>>

QueueNext == \E t \in Threads : QueueStep(t) /\ Silent

SpecQueue == Init /\ [][QueueNext]_vars

\* The lobby calls of well-formed handles.
LobbyNext == \E t \in Threads : LobbyStep(t, Handles) /\ Silent

SpecLobby == Init /\ [][LobbyNext]_vars

\* The lobby calls with names as clients send them.
NamesNext == \E t \in Threads : LobbyStep(t, RawNames) /\ Silent

SpecNames == Init /\ [][NamesNext]_vars

\* The game service with prompts that pass validation, and an executor
\* whose calls may fail.
GameNext ==
    \/ \E t \in Threads : PipelineStep(t, Prompts) /\ Silent
    \/ WorkerStep /\ Silent
    \/ WorkerFailure /\ Silent

SpecGame == Init /\ [][GameNext]_vars

\* The game service together with the manual completion.
FailsafeNext ==
    \/ GameNext
    \/ \E t \in Threads : FailsafeStep(t) /\ Silent

SpecFailsafe == Init /\ [][FailsafeNext]_vars

\* The pipeline when every generation and scoring call succeeds and no
\* operator steps in.
PipelineNext ==
    \/ \E t \in Threads : PipelineStep(t, Prompts) /\ Silent
    \/ WorkerStep /\ Silent

\* The executor runs a callback that stays ready to run.
PipelineFairness ==
    WF_vars(WorkerStep /\ Silent)

SpecPipeline == Init /\ [][PipelineNext]_vars /\ PipelineFairness

\* The game service with prompt texts of every kind: empty, of the greatest
\* length accepted, and one character longer.
RawPrompts == {"", Repeat("x", PromptMax), Repeat("x", PromptMax + 1)}

\* Games made through POST /game/create, and prompts of every kind for them.
PromptStep(t) ==
    \/ \E players \in GamePlayers : CreateGame(t, players, "manual")
    \/ \E g \in 1..MaxSessions, h \in Handles, text \in RawPrompts :
          RecordPrompt(t, g, h, text)

PromptsNext ==
    \/ \E t \in Threads : PromptStep(t) /\ Silent
    \/ WorkerStep /\ Silent
    \/ WorkerFailure /\ Silent

SpecPrompts == Init /\ [][PromptsNext]_vars

\* The three services side by side: matchmaking, the lobby calls of two
\* players, prompts and the executor's callbacks.
CoreNames == {"Nova", "Echo"}

CoreNext ==
    \/ QueueNext
    \/ \E t \in Threads : LobbyStep(t, CoreNames) /\ Silent
    \/ \E t \in Threads, g \in 1..MaxSessions, h \in CoreNames, text \in Prompts :
          RecordPrompt(t, g, h, text) /\ Silent
    \/ WorkerStep /\ Silent

SpecCore == Init /\ [][CoreNext]_vars

\* The services under their routes, with the socket events of every step.
EventsNext ==
    \/ \E t \in Threads : QueueStep(t) /\ Emit /\ UNCHANGED clientVars
    \/ \E t \in Threads : LobbyStep(t, CoreNames) /\ Emit /\ UNCHANGED clientVars
    \/ \E t \in Threads, g \in 1..MaxSessions, h \in CoreNames, text \in Prompts :
          RecordPrompt(t, g, h, text) /\ Emit /\ UNCHANGED clientVars
    \/ \E task \in tasks :
          /\ OnArtifactReady(task) /\ sink' = ArtifactEvents(task)
          /\ UNCHANGED clientVars
    \/ \E task \in tasks, s1 \in Scores, s2 \in Scores :
          /\ ScoringDone(task, s1, s2) /\ sink' = ScoredEvents(task)
          /\ UNCHANGED clientVars
    \/ WorkerFailure /\ sink' = <<>> /\ UNCHANGED clientVars

SpecEvents == Init /\ [][EventsNext]_vars

\* One mounted waiting page and the answers of the queue to it.
WaitingNext ==
    \/ OpponentJoins
    \/ \E reply \in JoinOutcomes : JoinMatchmakingReturns(reply)
    \/ PollTick
    \/ \E reply \in JoinOutcomes : PollReturns(reply)
    \/ RedirectFires
    \/ WaitingCleanup

SpecWaiting == Init /\ [][WaitingNext]_vars

\* One game page and its card, with the server behind the prompt route.
CardNext ==
    \/ \E t \in Threads, players \in GamePlayers :
          CreateGame(t, players, "matchmaking") /\ Silent
    \/ FetchGameData
    \/ \E reply \in gamePage.replies : GetReturns(reply)
    \/ \E text \in Typed : CardTypes(text)
    \/ Tick
    \/ CardHandleSubmit
    \/ ServeRequest
    \/ RequestReturns

SpecCard == Init /\ [][CardNext]_vars

\* The game page with both players' prompts, the executor and the page's
\* polling, while the countdown runs: the player submits by the button.
PageNext ==
    \/ \E t \in Threads, players \in GamePlayers :
          CreateGame(t, players, "matchmaking") /\ Silent
    \/ FetchGameData
    \/ \E reply \in gamePage.replies : GetReturns(reply)
    \/ \E text \in Typed : CardTypes(text)
    \/ CardHandleSubmit
    \/ ServeRequest
    \/ RequestReturns
    \/ OpponentSubmits
    \/ WorkerStep /\ Silent
    \/ PollInterval
    \/ PollGameStatus
    \/ PollForCompletion
    \/ IframeLoads

\* The responses that report the completion to the poll started by the
\* submission.
CompletionReplies ==
    {[from |-> "pollInterval", ok |-> TRUE, status |-> "completed",
      winner |-> w] : w \in {"Nova", "Echo", NoWinner}}

\* The browser keeps firing an interval that exists, and delivers a response
\* that has arrived.
PageFairness ==
    /\ WF_vars(PollInterval)
    /\ \A reply \in CompletionReplies : WF_vars(GetReturns(reply))

SpecPage == Init /\ [][PageNext]_vars /\ PageFairness

Next == QueueNext \/ LobbyNext \/ NamesNext \/ FailsafeNext \/ PipelineNext \/ PromptsNext \/ CoreNext \/ EventsNext
        \/ WaitingNext \/ CardNext \/ PageNext

Spec == Init /\ [][Next]_vars

\* ================================================================== properties
\* Steps of a handler, as seen from a pair of consecutive states.
Leaves(t, label) == pc[t] = label /\ pc'[t] # label
Returns(t, label) == pc[t] = label /\ pc'[t] = "idle"

PlayersOf(g) == {games[g].players[i] : i \in 1..Len(games[g].players)}

\* The Games matchmaking has ever paired h into.
PairedInto(h) == {g \in 1..Len(games) :
                     games[g].source = "matchmaking" /\ h \in PlayersOf(g)}

FirstGameOf(h) == CHOOSE g \in PairedInto(h) : \A k \in PairedInto(h) : g <= k

C2_WaitingMatchedDisjoint ==
    \A h \in Handles : ~(InSeq(waiting, h) /\ matchedPlayers[h] # NoGame)

\* A matched handle has polled again while another handle waits.
C2_Witness ==
    /\ Len(waiting) = 1
    /\ res.op = "joinQueue"
    /\ res.was = "matched"
    /\ matchedPlayers[res.h] # NoGame

\* ------------------------------------------------------------------ C3
\* C3: when joinQueue(h), for h neither matched nor waiting, brings waiting
\* to length >= 2, the two oldest handles are removed from waiting, exactly
\* one Game is created with those two players, source matchmaking and
\* status pending, both handles are mapped to that Game in matchedPlayers,
\* and the caller receives {matched, game}.
C3_PairingEffect ==
    [][\A t \in Threads :
          /\ (Leaves(t, "jq_check") /\ matchedPlayers[req[t].h] = NoGame
                /\ ~InSeq(waiting, req[t].h) /\ Len(waiting) >= 1) =>
                /\ waiting' = Append(waiting, req[t].h)
                /\ pc'[t] = "jq_pop"
                /\ queueLock' = t
          /\ Leaves(t, "jq_pop") =>
                /\ pair'[t] = <<waiting[1], waiting[2]>>
                /\ waiting' = SubSeq(waiting, 3, Len(waiting))
                /\ games' = games
                /\ queueLock' = t
          /\ (pc[t] \in {"jq_glock", "jq_create"} /\ pc'[t] = "jq_store") =>
                /\ Len(games') = Len(games) + 1
                /\ SubSeq(games', 1, Len(games)) = games
                /\ games'[Len(games')].players = pair[t]
                /\ games'[Len(games')].source = "matchmaking"
                /\ games'[Len(games')].status = "pending"
                /\ queueLock' = t
          /\ Leaves(t, "jq_store") =>
                /\ games' = games
                /\ games[Len(games)].players = pair[t]
                /\ matchedPlayers'[pair[t][1]] = Len(games)
                /\ matchedPlayers'[pair[t][2]] = Len(games)
                /\ \A h \in Handles \ {pair[t][1], pair[t][2]} :
                      matchedPlayers'[h] = matchedPlayers[h]
                /\ res'.status = "matched"
                /\ res'.game = Len(games)
                /\ res'.h \in {pair[t][1], pair[t][2]}
                /\ pc'[t] = "idle"]_vars

\* A call has just paired the handle that waited with its own caller.
C3_Witness ==
    /\ res.op = "joinQueue"
    /\ res.was = "new"
    /\ res.status = "matched"
    /\ games[res.game].players[2] = res.h
    /\ games[res.game].source = "matchmaking"
    /\ games[res.game].status = "pending"
    /\ \A h \in PlayersOf(res.game) : matchedPlayers[h] = res.game
    /\ waiting = <<>>

\* ------------------------------------------------------------------ C4
\* The third joiner: a is the handle that waited (and was told firstPos[a]),
\* b was paired with it into the first Game, and c now joins for the first
\* time and is queued.
ThirdJoin(t, a, b, c) ==
    /\ Returns(t, "jq_check")
    /\ req[t].h = c
    /\ Len(games) = 1
    /\ games[1].players = <<a, b>>
    /\ firstPos[a] # 0
    /\ c \notin {a, b}
    /\ firstPos[c] = 0
    /\ res'.status = "queued"

C5_RepeatedJoinIdempotent ==
    [][\A t \in Threads :
          (Leaves(t, "jq_check") /\ InSeq(waiting, req[t].h)) =>
              /\ pc'[t] = "idle"
              /\ res'.status = "queued"
              /\ res'.position >= 1
              /\ res'.position <= Len(waiting)
              /\ waiting[res'.position] = req[t].h
              /\ \A j \in 1..(res'.position - 1) : waiting[j] # req[t].h
              /\ waiting' = waiting
              /\ matchedPlayers' = matchedPlayers
              /\ games' = games]_vars

\* A poll of a handle that was already waiting has been answered.
C5_Witness ==
    /\ res.op = "joinQueue"
    /\ res.was = "waiting"
    /\ res.status = "queued"
    /\ res.position = 1
    /\ waiting = <<res.h>>

Observable == queueLock = NoThread

NoPendingPair == \A t \in Threads : pair[t] = NoPair

MatchedRegistered ==
    \A h \in Handles : matchedPlayers[h] # NoGame =>
        /\ matchedPlayers[h] \in 1..Len(games)
        /\ h \in PlayersOf(matchedPlayers[h])

BothOrNeither ==
    \A g \in 1..Len(games) : games[g].source = "matchmaking" =>
        (matchedPlayers[games[g].players[1]] = g
            <=> matchedPlayers[games[g].players[2]] = g)

C8_LobbyCapacity ==
    [][/\ \A id \in DOMAIN lobbies' : Len(lobbies'[id].players) <= 2
       /\ \A t \in Threads :
            (/\ Leaves(t, "jl_check")
             /\ req[t].id \in DOMAIN lobbies
             /\ Len(lobbies[req[t].id].players) = 2) =>
                /\ pc'[t] = "idle"
                /\ res'.op = "joinLobby"
                /\ res'.status = "ConflictError"
                /\ lobbies' = lobbies
                /\ games' = games]_vars

\* A third handle has tried to join a lobby of two and was refused.
C8_Witness ==
    /\ res.op = "joinLobby"
    /\ res.status = "ConflictError"
    /\ res.was = "full"
    /\ res.id \in DOMAIN lobbies
    /\ Len(lobbies[res.id].players) = 2
    /\ ~InSeq(lobbies[res.id].players, res.h)

\* ------------------------------------------------------------------ C9
\* A lobby id that was generated and whose lobby is gone.
Deleted(id) == id <= lobbiesMade /\ id \notin DOMAIN lobbies

\* C9: leaveLobby by the host deletes the lobby entirely, the lobby never
\* comes back, and every later getLobby, joinLobby, leaveLobby,
\* toggleReady or startLobby on that id fails with NotFoundError and
\* changes nothing.
C9_HostLeaveDeletes ==
    [][/\ \A t \in Threads :
            (/\ Leaves(t, "ll_body")
             /\ req[t].id \in DOMAIN lobbies
             /\ req[t].h = lobbies[req[t].id].host) =>
                /\ req[t].id \notin DOMAIN lobbies'
                /\ res'.status = "deleted"
                /\ \A i \in DOMAIN lobbies \ {req[t].id} :
                      i \in DOMAIN lobbies' /\ lobbies'[i] = lobbies[i]
       /\ \A id \in LobbyIds : Deleted(id) => id \notin DOMAIN lobbies'
       /\ \A t \in Threads :
            (/\ pc[t] \in {"gl_body", "jl_check", "ll_body", "tr_body", "sl_check"}
             /\ pc'[t] # pc[t]
             /\ Deleted(req[t].id)) =>
                /\ pc'[t] = "idle"
                /\ res'.op = req[t].op
                /\ res'.status = "NotFoundError"
                /\ lobbies' = lobbies
                /\ games' = games]_vars

\* The host left a lobby of two, and a later call on its id was answered
\* with NotFoundError.
C9_Witness ==
    /\ res.op \in {"getLobby", "joinLobby", "leaveLobby", "toggleReady", "startLobby"}
    /\ res.status = "NotFoundError"
    /\ res.was = "absent"
    /\ Deleted(res.id)

\* ------------------------------------------------------------------ C10
\* C10: status started is terminal: once a lobby is started no later
\* joinLobby, leaveLobby, toggleReady or startLobby changes its players,
\* readyState or status, and the lobby is never deleted.
C10_StartedIsTerminal ==
    [][\A id \in DOMAIN lobbies : lobbies[id].status = "started" =>
          /\ id \in DOMAIN lobbies'
          /\ lobbies'[id] = lobbies[id]]_vars

\* ------------------------------------------------------------------ C11
\* The start conditions, read off the lobby record: the caller is the
\* host, there are exactly two players and every readyState entry is true.
StartAllowed(id, h) ==
    /\ h = lobbies[id].host
    /\ Len(lobbies[id].players) = 2
    /\ \A k \in DOMAIN lobbies[id].readyState : lobbies[id].readyState[k] = TRUE

\* C11: startLobby(id, caller) succeeds only if the caller is the host, the
\* lobby has exactly 2 players and every readyState entry is true; on
\* success exactly one Game with source lobby and the lobby's players is
\* created and the lobby's status becomes started; in every other case it
\* fails and no Game is created.
C11_StartLobbyEffect ==
    [][/\ \A t \in Threads :
            /\ (Leaves(t, "sl_check") /\ req[t].id \in DOMAIN lobbies) =>
                  IF StartAllowed(req[t].id, req[t].h)
                  THEN /\ pc'[t] = "sl_glock"
                       /\ lobbyLock' = t
                       /\ lobbies' = lobbies
                  ELSE /\ pc'[t] = "idle"
                       /\ res'.op = "startLobby"
                       /\ res'.status # "ok"
                       /\ res'.game = NoGame
                       /\ lobbies' = lobbies
                       /\ games' = games
            /\ pc[t] \in {"sl_glock", "sl_create", "sl_commit"} =>
                  /\ lobbyLock = t
                  /\ StartAllowed(req[t].id, req[t].h)
            /\ Leaves(t, "sl_create") =>
                  /\ Len(games') = Len(games) + 1
                  /\ SubSeq(games', 1, Len(games)) = games
                  /\ games'[Len(games')].players = lobbies[req[t].id].players
                  /\ games'[Len(games')].source = "lobby"
                  /\ games'[Len(games')].status = "pending"
                  /\ lobbies' = lobbies
            /\ Leaves(t, "sl_commit") =>
                  /\ games' = games
                  /\ lobbies' = [lobbies EXCEPT ![req[t].id].status = "started"]
                  /\ games[Len(games)].players = lobbies[req[t].id].players
                  /\ res'.op = "startLobby"
                  /\ res'.status = "ok"
                  /\ res'.game = Len(games)
       /\ games' # games => \E t \in Threads : pc[t] = "sl_create"]_vars

\* The host has started a lobby of two ready players: the Game exists and
\* the lobby is started.
C11_Witness ==
    /\ res.op = "startLobby"
    /\ res.status = "ok"
    /\ res.game = Len(games)
    /\ res.id \in DOMAIN lobbies
    /\ lobbies[res.id].status = "started"
    /\ res.h = lobbies[res.id].host
    /\ games[res.game].source = "lobby"
    /\ games[res.game].players = lobbies[res.id].players
    /\ Len(games) = 1

\* ------------------------------------------------------------------ C12
\* C12: an invalid transition (startLobby by a non-host, startLobby before
\* every player is ready or without two players, joinLobby on a full or
\* started lobby) yields ConflictError and is all-or-nothing: the lobby
\* table, the game table and the queue are exactly as before the call, and
\* a start that passed validation is not disturbed by other requests
\* before it commits.
C12_ConflictIsAllOrNothing ==
    [][\A t \in Threads :
          /\ (/\ Leaves(t, "sl_check")
              /\ req[t].id \in DOMAIN lobbies
              /\ ~StartAllowed(req[t].id, req[t].h)) =>
                /\ pc'[t] = "idle"
                /\ res'.status = "ConflictError"
                /\ lobbies' = lobbies
                /\ games' = games
                /\ waiting' = waiting
                /\ matchedPlayers' = matchedPlayers
          /\ (/\ Leaves(t, "jl_check")
              /\ req[t].id \in DOMAIN lobbies
              /\ \/ Len(lobbies[req[t].id].players) >= 2
                 \/ lobbies[req[t].id].status = "started") =>
                /\ pc'[t] = "idle"
                /\ res'.status = "ConflictError"
                /\ lobbies' = lobbies
                /\ games' = games
                /\ waiting' = waiting
                /\ matchedPlayers' = matchedPlayers
          /\ (pc[t] \in {"sl_glock", "sl_create"} /\ pc'[t] = pc[t]) =>
                /\ lobbies' = lobbies
                /\ games' = games]_vars

\* A player who is not the host has tried to start a lobby of two ready
\* players and was refused.
C12_Witness ==
    /\ res.op = "startLobby"
    /\ res.status = "ConflictError"
    /\ res.id \in DOMAIN lobbies
    /\ res.h # lobbies[res.id].host
    /\ InSeq(lobbies[res.id].players, res.h)
    /\ Len(lobbies[res.id].players) = 2
    /\ \A k \in DOMAIN lobbies[res.id].readyState : lobbies[res.id].readyState[k]
    /\ games = <<>>

\* ------------------------------------------------------------------ C13
\* The name without the blanks around it, found by position.
Core(s) ==
    LET I == {i \in 1..Len(s) : SubSeq(s, i, i) # " "}
    IN  IF I = {} THEN ""
        ELSE SubSeq(s, CHOOSE i \in I : \A j \in I : i <= j,
                       CHOOSE i \in I : \A j \in I : i >= j)

\* Core, worked out once for the names the calls are made with.
CoreOf == [raw \in Handles \cup RawNames |-> Core(raw)]

NameCore(raw) == IF raw \in DOMAIN CoreOf THEN CoreOf[raw] ELSE Core(raw)

\* Whether the name is malformed, worked out once per name.
MalformedNames == {raw \in Handles \cup RawNames :
                     Len(CoreOf[raw]) < 2 \/ Len(CoreOf[raw]) > 64}

Malformed(raw) ==
    IF raw \in DOMAIN CoreOf THEN raw \in MalformedNames
    ELSE Len(Core(raw)) < 2 \/ Len(Core(raw)) > 64

\* C13: joinLobby, leaveLobby, toggleReady, startLobby and getLobby on a
\* lobby id that does not exist fail with NotFoundError, and a lobby call
\* whose handle is malformed (outside 2-64 characters after trimming)
\* fails with ValidationError; in both cases no lobby, game or queue state
\* changes.
C13_LobbyErrors ==
    [][/\ \A t \in Threads :
            (/\ pc[t] \in {"gl_body", "jl_check", "ll_body", "tr_body", "sl_check"}
             /\ pc'[t] # pc[t]
             /\ req[t].id \notin DOMAIN lobbies) =>
                /\ pc'[t] = "idle"
                /\ res'.op = req[t].op
                /\ res'.status = "NotFoundError"
                /\ lobbies' = lobbies
                /\ games' = games
                /\ waiting' = waiting
                /\ matchedPlayers' = matchedPlayers
       /\ calls' # calls =>
            \/ /\ res' = res
               /\ \E t \in Threads :
                     /\ req[t] = NoReq
                     /\ req'[t] # NoReq
                     /\ ~Malformed(req'[t].h)
                     /\ NameCore(req'[t].h) = req'[t].h
            \/ /\ req' = req
               /\ pc' = pc
               /\ res'.status = "ValidationError"
               /\ res'.op \in {"createLobby", "joinLobby", "leaveLobby",
                               "toggleReady", "startLobby"}
               /\ Malformed(res'.h)
               /\ lobbies' = lobbies
               /\ lobbiesMade' = lobbiesMade
               /\ lobbyLock' = lobbyLock
               /\ games' = games
               /\ waiting' = waiting
               /\ matchedPlayers' = matchedPlayers]_vars

\* A call on an existing lobby with a name that is too short once trimmed
\* has been refused.
C13_Witness ==
    /\ res.status = "ValidationError"
    /\ res.op = "toggleReady"
    /\ res.h = " N "
    /\ res.id \in DOMAIN lobbies
    /\ Len(lobbies[res.id].players) = 2

\* ------------------------------------------------------------------ C14
GameIds == 1..Len(games)

\* Games whose results come from generation and scoring, not from the
\* manual completion.
Scored == {g \in GameIds : ~games[g].forced}

HasWinner(g) == games[g].winner # NoWinner

BothScored(g) == \A p \in PlayersOf(g) : p \in DOMAIN games[g].scores

OtherPlayer(g, h) == CHOOSE p \in PlayersOf(g) : p # h

ScoresDiffer(g) == games[g].scores[games[g].players[1]]
                      # games[g].scores[games[g].players[2]]

C16_ScoringOutcome ==
    [][\A task \in tasks, s1 \in Scores, s2 \in Scores :
          ScoringDone(task, s1, s2) =>
             LET g == task.g
                 p1 == games[g].players[1]
                 p2 == games[g].players[2]
                 sc == games'[g].scores IN
             /\ games'[g].status = "completed"
             /\ sc[p1] = s1 /\ sc[p2] = s2
             /\ s1 = s2 => games'[g].winner = NoWinner
             /\ s1 > s2 => games'[g].winner = p1
             /\ s2 > s1 => games'[g].winner = p2]_vars

\* A scored Game is completed on equal scores, without a winner.
C16_Witness ==
    \E g \in Scored :
       /\ games[g].status = "completed"
       /\ BothScored(g)
       /\ ~ScoresDiffer(g)
       /\ ~HasWinner(g)

\* ------------------------------------------------------------------ C17
\* The manual completion returns in this step.
ManualStep == calls' # calls /\ res'.op = "completeManually"

\* The moves of the state machine pending -> processing -> completed, with
\* abandoned reachable from the two non-terminal statuses.
StatusMove(a, b) ==
    \/ a = "pending" /\ b = "processing"
    \/ a = "processing" /\ b = "completed"
    \/ a \in {"pending", "processing"} /\ b = "abandoned"

\* C17 as stated: apart from the manual completion, a step changes a Game's
\* status only along pending -> processing -> completed or to abandoned from
\* a non-terminal status; once completed or abandoned, no recordPrompt,
\* onArtifactReady or generation/scoring result changes the status again.
C17_StatusOnlyForward ==
    [][~ManualStep =>
          \A g \in GameIds :
             games'[g].status # games[g].status =>
                StatusMove(games[g].status, games'[g].status)]_vars

\* ------------------------------------------------------------------ C18
\* Games that matchmaking or a lobby created.
Paired == {g \in GameIds : games[g].source \in {"matchmaking", "lobby"}}

BothPrompted(g) ==
    /\ g \in GameIds
    /\ \A p \in PlayersOf(g) : p \in DOMAIN games[g].prompts

CompletedWithScores(g) ==
    /\ g \in GameIds
    /\ games[g].status = "completed"
    /\ BothScored(g)

\* C19: when both players of a Game have recorded a valid prompt and every
\* generation and scoring call succeeds, the Game eventually is completed
\* with a scores entry for both players, provided the executor runs its
\* callbacks.
C19_EventuallyCompleted ==
    \A g \in 1..MaxSessions : BothPrompted(g) ~> CompletedWithScores(g)

\* Both players have prompted, every callback has run, and the Game is
\* completed with both scores.
C19_Witness ==
    \E g \in GameIds :
       /\ BothPrompted(g)
       /\ CompletedWithScores(g)
       /\ tasks = {}

\* ------------------------------------------------------------------ C20
\* This step leaves the result of Game g as it was.
ResultKept(g) ==
    /\ games'[g].status = games[g].status
    /\ games'[g].scores = games[g].scores
    /\ games'[g].winner = games[g].winner

ScoringInFlight(g) == {task \in tasks' : task.g = g /\ task.pc = "scoring"}

\* A generation or scoring call for Game g fails in this step.
FailsFor(task) == GenerationFails(task) \/ ScoringFails(task)

\* C21 as stated: when a generation or scoring call fails, scores and winner
\* are untouched, the failure is reported as GenerationFailure, and the Game
\* is not in status processing once the failed call has returned.
C21_FailureLeavesNoProcessing ==
    [][\A task \in tasks :
          FailsFor(task) =>
             /\ res'.status = "GenerationFailure"
             /\ games'[task.g].scores = games[task.g].scores
             /\ games'[task.g].winner = games[task.g].winner
             /\ games'[task.g].status # "processing"]_vars

\* C21, amended: a failed generation call leaves the Game as it was; a failed
\* scoring call leaves scores and winner as they were and returns a Game
\* that is still processing to the status it had before that scoring was
\* started; both are reported as GenerationFailure; and after the failed call
\* the Game is processing only if another scoring call for it is still in
\* flight.
C21_FailureRestoresPriorState ==
    [][\A task \in tasks :
          /\ GenerationFails(task) =>
                /\ games' = games
                /\ res'.status = "GenerationFailure"
          /\ ScoringFails(task) =>
                /\ games'[task.g].scores = games[task.g].scores
                /\ games'[task.g].winner = games[task.g].winner
                /\ games'[task.g].status =
                      IF games[task.g].status = "processing"
                      THEN task.prior ELSE games[task.g].status
                /\ res'.status = "GenerationFailure"
          /\ FailsFor(task) =>
                (games'[task.g].status = "processing" =>
                    ScoringInFlight(task.g) # {})]_vars

\* Scoring failed after both artifacts were stored: the Game is pending
\* again, without scores, and the failure was reported.
C21_Witness ==
    /\ res.op = "scoreArtifact"
    /\ res.status = "GenerationFailure"
    /\ res.id \in GameIds
    /\ games[res.id].status = "pending"
    /\ BothHaveArtifacts(games[res.id])
    /\ games[res.id].scores = EmptyMap
    /\ tasks = {}

\* ------------------------------------------------------------------ C22
\* C22: recordPrompt with an empty prompt or one longer than 1000 characters
\* fails with ValidationError; with a valid prompt it fails with
\* NotFoundError when the game id is unknown or the handle is not a player of
\* the Game; in each failing case no Game changes and no generation is
\* requested.
C22_RecordPromptErrors ==
    [][(calls' # calls /\ res'.op = "recordPrompt") =>
          \A t \in Threads, text \in RawPrompts :
             RecordPrompt(t, res'.id, res'.h, text) =>
                IF Len(text) = 0 \/ Len(text) > 1000
                THEN /\ res'.status = "ValidationError"
                     /\ games' = games
                     /\ tasks' = tasks
                ELSE IF res'.id \notin GameIds \/ res'.h \notin PlayersOf(res'.id)
                THEN /\ res'.status = "NotFoundError"
                     /\ games' = games
                     /\ tasks' = tasks
                ELSE res'.status = "ok"]_vars

\* A player of an existing Game that already holds a prompt of the greatest
\* length was refused a prompt.
C22_Witness ==
    /\ res.op = "recordPrompt"
    /\ res.status = "ValidationError"
    /\ res.id \in GameIds
    /\ res.h \in PlayersOf(res.id)
    /\ \E h \in DOMAIN games[res.id].prompts :
          Len(games[res.id].prompts[h][1]) = PromptMax

\* ------------------------------------------------------------------ C23
\* The handlers that are in the middle of an operation.
Busy == {t \in Threads : pc[t] # "idle"}

\* Some handler that is in the middle of an operation takes its next step.
BusyStep == \E t \in Busy : QueueStep(t) \/ LobbyStep(t, CoreNames)

\* A handler takes a lock in this step.
Takes(lock, t) == lock # t /\ lock' = t

\* Locks are taken in the order queue, lobby, game: a handler that takes the
\* queue lock holds neither of the others, and one that takes the lobby lock
\* does not hold the game lock.
LockOrderStep ==
    \A t \in Threads :
       /\ Takes(queueLock, t) => lobbyLock # t /\ gameLock # t
       /\ Takes(lobbyLock, t) => gameLock # t

\* Every held lock belongs to a handler in the middle of an operation, and
\* whenever handlers are in the middle of an operation one of them can go on.
NoDeadlock ==
    /\ \A t \in Threads :
          pc[t] = "idle" => queueLock # t /\ lobbyLock # t /\ gameLock # t
    /\ Busy # {} => ENABLED BusyStep

\* C23: an operation that holds more than one store lock takes them in the
\* order queue, lobby, game, and no interleaving of joinQueue, cancel, lobby
\* operations, recordPrompt and onArtifactReady reaches a deadlock.
C23_LockOrderNoDeadlock == []NoDeadlock /\ [][LockOrderStep]_vars

\* One handler holds the queue lock and waits for the game lock while the
\* game lock is held by a handler that started a lobby's Game.
C23_Witness ==
    \E t \in Threads, u \in Threads :
       /\ pc[t] = "jq_glock" /\ queueLock = t
       /\ pc[u] = "sl_create" /\ lobbyLock = u /\ gameLock = u

\* ------------------------------------------------------------------ C24
\* A generation or scoring call is running in the executor.
CallInFlight == tasks # {}

\* The operations of the queue and the lobbies.
StoreOps ==
    {"joinQueue", "cancel", "createLobby", "joinLobby", "leaveLobby",
     "toggleReady", "getLobby", "startLobby"}

\* Some request handler starts an operation or goes on with one.
HandlerStep == \E t \in Threads : QueueStep(t) \/ LobbyStep(t, CoreNames)

\* C24: while a generation or scoring call is in flight no store lock is
\* held by the operation that issued it (a held lock belongs to a handler
\* inside a queue or lobby operation), and the queue and lobby operations of
\* the other players go on: a handler inside an operation can take its next
\* step and, when none is, a new operation can start.
C24_NoCallUnderLock ==
    CallInFlight =>
       /\ \A t \in Threads :
             pc[t] = "idle" => queueLock # t /\ lobbyLock # t /\ gameLock # t
       /\ Busy # {} => ENABLED BusyStep
       /\ calls < MaxCalls => ENABLED HandlerStep

\* Nova's generation call is pending and a queue or lobby operation of Echo
\* has returned in the meantime.
C24_Witness ==
    /\ \E task \in tasks : task.pc = "generating" /\ task.h = "Nova"
    /\ res.op \in StoreOps /\ res.h = "Echo" /\ res.status = "ok"

\* ------------------------------------------------------------------ C25
\* The generation calls that are requested in this step.
Requested == {task \in tasks' \ tasks : task.pc = "generating"}

\* The prompt that a player recorded last in a game.
LastPrompt(g, h) ==
    LET said == games'[g].prompts[h] IN said[Len(said)]

Published(ns, id, name) ==
    Cardinality({i \in 1..Len(sink') : sink'[i] = Event(ns, id, name)})

\* The event is published once by a step that commits the transition and
\* not at all by any other step.
OncePer(committed, ns, id, name) ==
    Published(ns, id, name) = IF committed THEN 1 ELSE 0

\* The transitions of the queue, of a lobby and of a game.
QueueMatched(g) ==
    \E h \in Handles : matchedPlayers'[h] = g /\ matchedPlayers[h] # g

LobbyJoined(id) ==
    /\ id \in DOMAIN lobbies /\ id \in DOMAIN lobbies'
    /\ Len(lobbies'[id].players) > Len(lobbies[id].players)

LobbyBecame(id, status) ==
    /\ id \in DOMAIN lobbies /\ id \in DOMAIN lobbies'
    /\ lobbies'[id].status = status /\ lobbies[id].status # status

\* start_lobby commits: the lobby is marked started (a lobby already started
\* is marked again).
LobbyStarted(id) ==
    /\ id \in DOMAIN lobbies'
    /\ lobbies'[id].status = "started"
    /\ \E t \in Threads :
          pc[t] = "sl_commit" /\ pc'[t] = "idle" /\ req[t].id = id

PromptSubmitted(g) ==
    /\ g \in GameIds
    /\ games'[g].prompts # games[g].prompts

\* The game is marked processing and a scoring call is started for it.
ScoringStarted(g) ==
    /\ g \in GameIds
    /\ games'[g].status = "processing"
    /\ \E task \in tasks' \ tasks : task.g = g /\ task.pc = "scoring"

\* A scoring call has returned its scores and the game is completed with
\* them (a game completed before is completed again).
ScoresStored(g) ==
    /\ g \in GameIds
    /\ games'[g].status = "completed"
    /\ res' = res
    /\ \E task \in tasks \ tasks' : task.g = g /\ task.pc = "scoring"

QueueEventsStep ==
    \A g \in 1..MaxGames : OncePer(QueueMatched(g), "queue", g, "matched")

LobbyEventsStep ==
    \A id \in LobbyIds :
       /\ OncePer(LobbyJoined(id), "lobby", id, "player_joined")
       /\ OncePer(LobbyBecame(id, "full"), "lobby", id, "lobby_full")
       /\ OncePer(LobbyStarted(id), "lobby", id, "game_started")

GameEventsStep ==
    \A g \in 1..MaxGames :
       /\ OncePer(PromptSubmitted(g), "game", g, "prompt_submitted")
       /\ OncePer(ScoringStarted(g), "game", g, "game_processing")
       /\ OncePer(ScoresStored(g), "game", g, "game_completed")

C27_TwoDistinctPlayers ==
    \A g \in GameIds :
       games[g].source \in {"matchmaking", "lobby"} =>
          /\ Len(games[g].players) = 2
          /\ games[g].players[1] # games[g].players[2]

\* ------------------------------------------------------------------ C28
\* toggleReady returns ok in this step, for the call of handler t.
ToggleReturns(t) ==
    /\ pc[t] = "tr_body" /\ pc'[t] = "idle"
    /\ res'.status = "ok"

StatusByCount(lobby) ==
    /\ lobby.status = "waiting" <=> Len(lobby.players) = 1
    /\ lobby.status = "full" <=> Len(lobby.players) = 2

\* leaveLobby returns ok in this step, for the call of handler t: a player
\* other than the host has left.
LeaveReturns(t) ==
    /\ pc[t] = "ll_body" /\ pc'[t] = "idle"
    /\ res'.status = "ok"

Members(lobby) == {lobby.players[i] : i \in 1..Len(lobby.players)}

\* joinLobby returns ok in this step, for the call of handler t.
JoinReturns(t) ==
    /\ pc[t] = "jl_commit" /\ pc'[t] = "idle"
    /\ res'.status = "ok"

\* C30: in every lobby the keys of readyState are the current players and
\* the host is the first player; a player who joins, for the first time or
\* again after leaving, is not ready.
C30_ReadyStateOfPlayers ==
    /\ [](\A id \in DOMAIN lobbies :
             /\ DOMAIN lobbies[id].readyState = Members(lobbies[id])
             /\ Len(lobbies[id].players) >= 1
             /\ lobbies[id].host = lobbies[id].players[1])
    /\ [][\A t \in Threads :
             JoinReturns(t) =>
                /\ req[t].id \in DOMAIN lobbies'
                /\ req[t].h \in Members(lobbies'[req[t].id])
                /\ lobbies'[req[t].id].readyState[req[t].h] = FALSE]_vars

\* Echo is back in Nova's lobby after five calls, not ready, while Nova is
\* ready.
C30_Witness ==
    /\ res.op = "joinLobby" /\ res.status = "ok" /\ res.h = "Echo"
    /\ calls >= 5
    /\ res.id \in DOMAIN lobbies
    /\ lobbies[res.id].players = <<"Nova", "Echo">>
    /\ lobbies[res.id].readyState = [k \in {"Nova", "Echo"} |-> k = "Nova"]

\* ------------------------------------------------------------------ C31
\* recordPrompt returns ok in this step for player h of game g.
PromptRecorded(g, h) ==
    /\ calls' # calls
    /\ res'.op = "recordPrompt" /\ res'.status = "ok"
    /\ res'.id = g /\ res'.h = h

C32_ManualCompletionStoresGiven ==
    [][(ManualStep /\ res'.status = "ok" /\ res'.was \notin TerminalStatuses) =>
          \A t \in Threads, out \in ManualOutcomes :
             CompleteManually(t, res'.id, out) =>
                LET g == res'.id
                    old == games[g]
                    new == games'[g] IN
                /\ new.artifacts = ManualArtifacts(old.players)
                /\ new.scores = ScoresOf(old.players, out.s1, out.s2)
                /\ new.winner = out.winner
                /\ new.status = out.status
                /\ new.status \in TerminalStatuses
                /\ new.players = old.players /\ new.prompts = old.prompts
                /\ tasks' = tasks
                /\ \A k \in GameIds : k # g => games'[k] = games[k]
                /\ Len(games') = Len(games)]_vars

\* A Game that was processing has been completed by hand as abandoned, with
\* the scores 80 and 92 it was given, while its scoring call is in flight.
C32_Witness ==
    /\ res.op = "completeManually" /\ res.status = "ok"
    /\ res.was = "processing"
    /\ res.id \in GameIds
    /\ games[res.id].status = "abandoned"
    /\ games[res.id].scores = ScoresOf(games[res.id].players, 80, 92)
    /\ games[res.id].winner = NoWinner
    /\ \E task \in tasks : task.g = res.id /\ task.pc = "scoring"

\* ------------------------------------------------------------------ C33
\* C33: for one Game, scoring is started at most once: a scoring call starts
\* only while no other scoring call of the Game is in flight and no scores
\* are stored, and once scores and winner are written they are not
\* overwritten by a second scoring run.
C33_ScoredAtMostOnce ==
    [][\A g \in GameIds :
          /\ ScoringStarted(g) =>
                /\ ~\E task \in tasks : task.g = g /\ task.pc = "scoring"
                /\ games[g].scores = EmptyMap
          /\ games[g].scores # EmptyMap =>
                /\ games'[g].scores = games[g].scores
                /\ games'[g].winner = games[g].winner]_vars

\* ------------------------------------------------------------------ C34
\* C34: once a joinQueue or cancel call has completed (no handler is inside
\* the queue's critical section) the queue holds at most one handle and no
\* handle twice: two unpaired handles never remain in the queue.
C34_AtMostOneWaiting ==
    queueLock = NoThread =>
       /\ Len(waiting) <= 1
       /\ \A i, j \in 1..Len(waiting) : waiting[i] = waiting[j] => i = j

\* Nova and Echo are paired and Iris, who joined after them, is the only
\* handle in the queue.
C34_Witness ==
    /\ queueLock = NoThread
    /\ res.op = "joinQueue" /\ res.h = "Iris" /\ res.status = "queued"
    /\ waiting = <<"Iris">>
    /\ matchedPlayers["Nova"] # NoGame
    /\ matchedPlayers["Nova"] = matchedPlayers["Echo"]

\* ------------------------------------------------------------------ C35
\* The matched Game of handle h has been completed.
MatchFinished(h) ==
    /\ matchedPlayers[h] \in GameIds
    /\ games[matchedPlayers[h]].status = "completed"

\* C35: a handle whose matched Game is completed and who calls joinQueue
\* again is put in the queue or paired into a new Game; the call does not
\* answer with the finished Game.
C35_PlayAgainGetsNewMatch ==
    [][\A t \in Threads :
          (/\ req[t].op = "joinQueue"
           /\ pc[t] # "idle" /\ pc'[t] = "idle"
           /\ MatchFinished(req[t].h)) =>
             /\ res'.status \in {"queued", "matched"}
             /\ res'.game # matchedPlayers[req[t].h]]_vars

\* ------------------------------------------------------------------ C36
\* C36: the waiting page polls only while the player is queued; the redirect
\* is scheduled once per mount, also when two poll responses overlap; after
\* the cleanup no response changes the status or schedules a redirect.
C36_PollsWhileQueuedRedirectsOnce ==
    /\ [](waitingPage.pollInterval => waitingPage.status = "queued")
    /\ [](waitingPage.timers + waitingPage.pushes <= 1)
    /\ [][~waitingPage.isActive =>
             /\ waitingPage'.status = waitingPage.status
             /\ waitingPage'.timers <= waitingPage.timers]_vars

Expires ==
    /\ card.timeLeft = 1
    /\ card'.timeLeft = 0
    /\ ~card.isSubmitted

\* C38: when the countdown expires and the player has not submitted, the
\* page sends the text of the box, blank or not, to POST /game/{id}/prompt,
\* so a player whose countdown has expired, and whose requests have been
\* served, has a prompt recorded for the Game.
C38_ExpirySendsPrompt ==
    /\ [][Expires =>
             gamePage'.outbox = Append(gamePage.outbox,
                                       [route |-> "prompt",
                                        text |-> card.promptText])]_vars
    /\ []((card.timeLeft = 0 /\ gamePage.outbox = <<>>) =>
             PagePlayer \in DOMAIN games[PageGame].prompts)

\* ------------------------------------------------------------------ C39
\* The Game of the page is completed and holds a prompt of the player.
CompletedAfterPrompt ==
    /\ GameExists(PageGame)
    /\ games[PageGame].status = "completed"
    /\ PagePlayer \in DOMAIN games[PageGame].prompts

\* Once the Game is completed and the player has submitted a prompt, the
\* page eventually sets gameCompleted, whoever won.
C39_CompletionObserved == CompletedAfterPrompt ~> gamePage.gameCompleted

\* gameCompleted never returns to false.
C39_CompletionKept == [][gamePage.gameCompleted => gamePage'.gameCompleted]_vars

\* No interval polls GET /game/{id} once gameCompleted is set.
C39_PollingStops == [](~gamePage.pollsAfter)

\* C39: once the server Game is completed and the player has submitted a
\* prompt, the page eventually sets gameCompleted (also when the winner is
\* none), gameCompleted never returns to false, and all polling of
\* GET /game/{id} stops after the completion has been observed.
C39_CompletionObservedPollingStops ==
    /\ C39_CompletionObserved
    /\ C39_CompletionKept
    /\ C39_PollingStops

====
